---- MODULE Spec2Model ----
(***************************************************************************)
(* kportforward: the supervision engine.                                   *)
(*                                                                         *)
(* One ServiceManager per configured service (internal/portforward/        *)
(* service.go), composed by the Manager (internal/portforward/manager.go), *)
(* with the port helpers of internal/utils/ports.go and the process        *)
(* helpers of the utils package (KillProcess, IsProcessRunning,            *)
(* StartKubectlPortForward).                                               *)
(*                                                                         *)
(* Every body that runs under the per-service mutex (Start, Stop, the      *)
(* increment of Restart, GetStatus) is one atomic step; a Restart is three *)
(* steps (Stop, increment, Start) because it releases the mutex between    *)
(* them.  The child processes, the local ports, the kubectl context and    *)
(* the clock are the environment.                                          *)
(***************************************************************************)
EXTENDS Integers, Sequences, FiniteSets, TLC

\* ------------------------------------------------------------------ bounds
MaxPort == 3            \* stands for 65535, the last port FindAvailablePort probes
MaxContextChanges == 1  \* times the kubectl context is switched
\* Spec, the whole program:
MaxTime == 6            \* the clock stops here (seconds)
MaxRestarts == 2        \* Restart invocations, all services together
MaxSpawnFailures == 1   \* failed execs of kubectl, all services together
\* SpecSupervise, one service with every caller of Restart:
DeepTime == 6
DeepRestarts == 3
DeepSpawnFailures == 3
\* SpecProbe, one service whose spawns succeed, followed for the longest:
LongTime == 16
LongRestarts == 3
MaxServices == 3        \* services handed to ResolvePortConflicts
MaxCalls == 3           \* SpecLifecycle: calls the client makes
\* SpecWatch, two services while the kubectl context is switched:
WatchTime == 11
WatchRestarts == 1      \* Restart invocations the ticks may dispatch
MaxProbes == 3          \* calls of FindAvailablePort
BackoffTime == 196      \* the clock of the backoff ladder: room for nine failures
MaxReconciles == 2      \* calls of MonitorServices
MaxHelperCalls == 2     \* StartService calls a client may have begun
MaxReruns == 1          \* repeated calls of ResolvePortConflicts

\* ------------------------------------------------------- program constants
MonitoringInterval == 5 \* seconds between two ticks of the monitoring ticker
CooldownThreshold == 3  \* handleFailure: no cooldown below this failure count
StatusChanCap == 1      \* make(chan ..., 1)

Services == {"a", "b"}
Contexts == {"alpha", "beta"}
Ports == 1..MaxPort
backoffSeconds == <<5, 10, 20, 40, 60>>

\* The configurations explored (PortForwards: name -> desired local port):
\* one service, two services that want the same port, two that do not.
Configs == {[a \in {"a"} |-> 1]} \cup
           {c \in [Services -> Ports] : c["a"] = 1 /\ c["b"] \in {1, 2}}
\* The sets of ports some foreign process holds (and accepts connections on).
Externals == {{}, {1}}

\* The budgets of a specification: where the clock stops, how many Restart
\* invocations and failed execs it follows, and whether a child may ignore
\* SIGTERM.
Wide == [time |-> MaxTime, restarts |-> MaxRestarts,
         failures |-> MaxSpawnFailures, stubborn |-> FALSE]
Long == [time |-> LongTime, restarts |-> LongRestarts, failures |-> 0,
         stubborn |-> FALSE]
Deep == [time |-> DeepTime, restarts |-> DeepRestarts,
         failures |-> DeepSpawnFailures, stubborn |-> FALSE]

VARIABLES
  config,        \* Manager.config.PortForwards: service -> desired LocalPort
  external,      \* ports bound by processes that are not ours
  now,           \* the wall clock, in seconds
  sm,            \* service -> the ServiceManager's fields (status.* and internals)
  children,      \* pid -> the child process spawned with that pid
  mgr,           \* the Manager's lifecycle position
  mgrLock,       \* Manager.mutex held for writing (by Start or Stop)
  toStart,       \* Manager.Start: services its start loop has not reached yet
  toStop,        \* Manager.Stop: services its stop loop has not reached yet
  stopCalls,     \* completed or panicked calls of Manager.Stop
  kubernetesContext, \* Manager.kubernetesContext
  kctx,          \* what `kubectl config current-context` prints now
  ctxChanges,    \* how often kctx was switched
  ctxCancelled,  \* Manager.ctx is cancelled
  tickerOn,      \* monitoringTicker exists and was not stopped
  tickBuffered,  \* a tick waits in monitoringTicker.C
  nextFire,      \* when the ticker fires next
  loopPc,        \* the monitoring goroutine's position
  toMonitor,     \* monitorServices: services its loop has not reached yet
  statusChan,    \* the buffered status channel: the serial numbers of the snapshots in it
  chanClosed,    \* statusChan was closed
  panicked,      \* the process is gone: a runtime panic, or os.Exit in main
  restartTasks,  \* Restart invocations in flight: the bag of (service, position)
  globalRestart, \* restartAllServices goroutines in flight
  invoked,       \* service -> Restart invocations so far
  incremented,   \* service -> Restart invocations that passed their increment
  streak,        \* service -> consecutive failures (spawn error or failed probe)
  spawnedAfterStop, \* a child was spawned after Manager.Stop had returned
  services,      \* ResolvePortConflicts: its argument, name -> desired port
  portAssignments, \* ResolvePortConflicts: name -> assigned port
  usedPorts,     \* ResolvePortConflicts: the ports it has handed out
  resolvePc,     \* ResolvePortConflicts: the call's position
  pending,       \* ResolvePortConflicts: names the running pass has not visited
  portCache,     \* PortChecker.cache: port -> the answer it remembers
  previous,      \* the results of the resolver's earlier calls on these services
  calls,         \* the calls a client made on the ServiceManager itself, in order
  rlocked,       \* services whose mutex the monitoring goroutine holds for reading
  tickStart,     \* during a tick: service -> RestartCount when the tick began
  built,         \* snapshots monitorServices has built so far
  lastReceived,  \* the serial number of the snapshot the observer received last
  startErrors,   \* Manager.Start: len(startErrors)
  svcType,       \* config: service -> Type ("rpc", "rest", "web")
  gmEnabled,     \* GRPCUIManager.enabled
  gmServices,    \* GRPCUIManager.services: name -> the helper's entry
  gmTasks,       \* goroutines MonitorServices dispatched that have not run yet
  helperProcs,   \* pid -> the grpcui process spawned with that pid
  gmSnapshot,    \* the status map of the last MonitorServices call that used it
  gmCall,        \* the last call a client made on the GRPCUIManager, and its result
  reconciles,    \* calls of MonitorServices so far
  probeFrom,     \* FindAvailablePort: its argument startPort
  found,         \* FindAvailablePort: what the last call returned (0: the error)
  probes         \* FindAvailablePort: the calls made so far

vars == <<config, external, now, sm, children, mgr, mgrLock, toStart, toStop,
          stopCalls, kubernetesContext, kctx, ctxChanges, ctxCancelled,
          tickerOn, tickBuffered, nextFire, loopPc, toMonitor,
          statusChan, chanClosed, panicked, restartTasks,
          globalRestart, invoked, incremented, streak,
          spawnedAfterStop, services, portAssignments, usedPorts, resolvePc,
          pending, portCache, previous, calls, rlocked, tickStart, built,
          lastReceived,
          startErrors, svcType, gmEnabled, gmServices, gmTasks, helperProcs,
          gmSnapshot, gmCall, reconciles, probeFrom, found, probes>>

resolveVars == <<services, portAssignments, usedPorts, resolvePc, pending,
                 portCache, previous>>

uiVars == <<svcType, gmEnabled, gmServices, gmTasks, helperProcs, gmSnapshot,
            gmCall, reconciles>>

probeVars == <<probeFrom, found, probes>>

\* The configured services.
Names == DOMAIN config

\* ------------------------------------------------------------ utils: ports
\* The ports somebody listens on: foreign processes and our bound children.
Listening(ch, ext) ==
  ext \cup {ch[i].port : i \in {j \in 1..Len(ch) : ch[j].st = "bound"}}

\* net.Listen(":port") succeeds: the port is valid and nobody holds it.
IsPortAvailable(port, ch, ext) ==
  port \in Ports /\ port \notin Listening(ch, ext)

\* A search that returns startPort without probing it: what FindAvailablePort
\* must not be.
FindAvailablePortUnprobed(startPort, ch, ext) ==
  IF startPort \in Ports THEN startPort ELSE 0

\* The lowest available port in startPort..65535; 0 stands for the error.
FindAvailablePort(startPort, ch, ext) ==
  LET free == {p \in startPort..MaxPort : IsPortAvailable(p, ch, ext)}
  IN IF free = {} THEN 0 ELSE CHOOSE p \in free : \A q \in free : p <= q

\* net.DialTimeout("localhost:port") succeeds: somebody listens there.
CheckPortConnectivity(port, ch, ext) == port \in Listening(ch, ext)

\* -------------------------------------------------------- utils: processes
\* Signal 0 reaches every process table entry. No child is ever waited for,
\* so an exited child stays in the table as a zombie and its pid stays valid.
IsProcessRunning(pid, ch) == pid > 0 /\ pid <= Len(ch)

Alive(c) == c.st \in {"unbound", "bound"}

\* KillProcess: SIGTERM to the pid, and nothing more when the signal could be
\* sent; obeys says whether the process exits on it.
KillProcess(pid, ch, obeys) ==
  IF pid > 0 /\ pid <= Len(ch) /\ Alive(ch[pid]) /\ obeys
  THEN [ch EXCEPT ![pid].st = "dead"]
  ELSE ch

\* The pid the next spawn gets.  Pids are only compared for equality, so the
\* slot of an entry that Reap dropped is used again.
NewPid(ch) ==
  LET gone == {i \in 1..Len(ch) : ch[i].st = "gone"}
  IN IF gone = {} THEN Len(ch) + 1
     ELSE CHOOSE i \in gone : \A j \in gone : i <= j

\* exec.Cmd.Start succeeded: a new process, which has not bound its port yet.
StartKubectlPortForward(s, localPort, ch) ==
  LET c == [svc |-> s, port |-> localPort, st |-> "unbound"]
  IN IF NewPid(ch) = Len(ch) + 1 THEN Append(ch, c)
     ELSE [ch EXCEPT ![NewPid(ch)] = c]

RECURSIVE Trim(_)
Trim(ch) ==
  IF ch # <<>> /\ ch[Len(ch)].st = "gone"
  THEN Trim(SubSeq(ch, 1, Len(ch) - 1))
  ELSE ch

\* The process table as far as the program can still observe it: an exited
\* child whose pid some ServiceManager holds stays (a zombie, its port
\* released); an exited child whose pid nobody holds is dropped.
Reap(ch, mgrs) ==
  Trim([i \in 1..Len(ch) |->
          IF Alive(ch[i]) THEN ch[i]
          ELSE IF \E s \in DOMAIN mgrs : mgrs[s].cmd = i
               THEN [svc |-> ch[i].svc, port |-> 0, st |-> "dead"]
               ELSE [svc |-> "", port |-> 0, st |-> "gone"]])

\* ---------------------------------------------------------- ServiceManager
NewServiceManager(localPort) ==
  [Status |-> "Starting", LocalPort |-> localPort, PID |-> 0, StartTime |-> 0,
   RestartCount |-> 0, LastError |-> "", InCooldown |-> FALSE,
   cmd |-> 0, failureCount |-> 0, cooldownUntil |-> 0]

\* A Start that never refuses: what isInCooldown must not be.
isInCooldownIgnored(r, t) == FALSE

\* time.Now().Before(sm.cooldownUntil)
isInCooldown(r, t) == t < r.cooldownUntil

\* The cooldown, in seconds, that the failureCount-th failure sets (0: none).
\* A cooldown that never leaves the first step of the ladder: what
\* cooldownDuration must not be.
cooldownDurationFlat(failureCount) ==
  IF failureCount < CooldownThreshold THEN 0 ELSE backoffSeconds[1]

cooldownDuration(failureCount) ==
  IF failureCount < CooldownThreshold THEN 0
  ELSE LET backoffIndex == failureCount - CooldownThreshold
       IN backoffSeconds[(IF backoffIndex >= Len(backoffSeconds)
                          THEN Len(backoffSeconds) - 1
                          ELSE backoffIndex) + 1]

handleFailure(r, t) ==
  LET n == r.failureCount + 1
  IN IF n < CooldownThreshold
     THEN [r EXCEPT !.failureCount = n]
     ELSE [r EXCEPT !.failureCount = n, !.cooldownUntil = t + cooldownDuration(n)]

\* A resolution that hands out the configured port without a probe: what
\* resolvePort must not be.
resolvePortUnprobed(desired, ch, ext) == desired

\* The configured port if it is available, else the next available above it.
resolvePort(desired, ch, ext) ==
  IF IsPortAvailable(desired, ch, ext) THEN desired
  ELSE FindAvailablePort(desired + 1, ch, ext)

\* The message of FindAvailablePort's error.
NoPortsError == "no available ports found"

\* A failed resolution that also wipes the recorded port: what
\* PortResolutionFailed must not be.
PortResolutionWipesPort(r) ==
  [r EXCEPT !.Status = "Failed", !.LastError = NoPortsError, !.LocalPort = 0]

\* Start when resolvePort returned an error: Failed, with the error's message.
PortResolutionFailed(r) ==
  [r EXCEPT !.Status = "Failed", !.LastError = NoPortsError]

\* ServiceManager.Start on service s with fields r at time t; spawnOk says
\* whether exec of kubectl succeeds.  The result: the new fields, the new
\* process table, and the returned error ("" for nil).
Start(s, r, desired, t, ch, ext, spawnOk) ==
  IF isInCooldown(r, t)
  THEN [sm |-> [r EXCEPT !.Status = "Cooldown", !.InCooldown = TRUE],
        children |-> ch, err |-> "cooldown"]
  ELSE LET actualPort == resolvePort(desired, ch, ext) IN
    IF actualPort = 0
    THEN [sm |-> PortResolutionFailed(r), children |-> ch, err |-> "port"]
    ELSE IF ~spawnOk
    THEN [sm |-> handleFailure(
                   [r EXCEPT !.LocalPort = actualPort, !.Status = "Failed",
                             !.LastError = "failed to start kubectl port-forward"],
                   t),
          children |-> ch, err |-> "spawn"]
    ELSE [sm |-> [r EXCEPT !.LocalPort = actualPort,
                           !.cmd = NewPid(ch), !.PID = NewPid(ch),
                           !.StartTime = t, !.Status = "Running",
                           !.LastError = "", !.InCooldown = FALSE],
          children |-> StartKubectlPortForward(s, actualPort, ch),
          err |-> ""]

\* A Stop that keeps the handle of the child it signalled: what Stop must not
\* be.
StopKeepsHandle(r, ch, obeys) ==
  [sm |-> [r EXCEPT !.Status = "Stopped", !.PID = 0],
   children |-> IF r.cmd # 0 THEN KillProcess(r.cmd, ch, obeys) ELSE ch]

\* A Stop that drops the process but not the phase: what Stop must not be.
StopLeavesPhase(r, ch, obeys) ==
  [sm |-> [r EXCEPT !.cmd = 0, !.PID = 0],
   children |-> IF r.cmd # 0 THEN KillProcess(r.cmd, ch, obeys) ELSE ch]

\* ServiceManager.Stop: kill the child if there is a handle, mark Stopped.
Stop(r, ch, obeys) ==
  [sm |-> [r EXCEPT !.cmd = 0, !.Status = "Stopped", !.PID = 0],
   children |-> IF r.cmd # 0 THEN KillProcess(r.cmd, ch, obeys) ELSE ch]

\* A Restart that forgets its increment: what RestartIncrement must not be.
RestartIncrementLost(r) == r

\* The increment Restart makes between its Stop and its Start.
RestartIncrement(r) == [r EXCEPT !.RestartCount = r.RestartCount + 1]

\* A Restart that starts without stopping: what Restart must not be.
RestartSkipsStop(s, r, desired, t, ch, ext, spawnOk, obeys) ==
  Start(s, RestartIncrement(r), desired, t, ch, ext, spawnOk)

\* ServiceManager.Restart with nothing else running in between: Stop, the
\* increment, Start; the result is Start's.
Restart(s, r, desired, t, ch, ext, spawnOk, obeys) ==
  LET stopped == Stop(r, ch, obeys)
  IN Start(s, RestartIncrement(stopped.sm), desired, t, stopped.children, ext,
           spawnOk)

IsHealthy(r, ch, ext) ==
  /\ r.cmd # 0
  /\ IsProcessRunning(r.cmd, ch)
  /\ CheckPortConnectivity(r.LocalPort, ch, ext)

\* GetStatus: the fields after the call; the snapshot returned is their
\* status part.
GetStatus(r, ch, ext) ==
  IF r.Status = "Running" /\ ~IsHealthy(r, ch, ext)
  THEN [r EXCEPT !.Status = "Failed", !.LastError = "Health check failed"]
  ELSE r

\* ----------------------------------------------------------------- helpers
RestartPcs == {"stop", "incr", "start"}

LiveChildren(s) ==
  {i \in 1..Len(children) : children[i].svc = s /\ Alive(children[i])}

NoTasks == [s \in Names |-> [p \in RestartPcs |-> 0]]

RECURSIVE Sum(_, _)
Sum(f, S) == IF S = {} THEN 0
             ELSE LET x == CHOOSE y \in S : TRUE IN f[x] + Sum(f, S \ {x})

\* The budgets B: another Restart may be invoked; another exec may fail.
MayRestart(B) == Sum(invoked, Names) < B.restarts
MayFail(B) == Sum([s \in Names |-> sm[s].failureCount], Names) < B.failures

MoveTask(s, from, to) ==
  restartTasks' =
    [restartTasks EXCEPT
       ![s] = [p \in RestartPcs |->
                 IF p = from /\ p = to THEN @[p]
                 ELSE IF p = from THEN @[p] - 1
                 ELSE IF p = to THEN @[p] + 1
                 ELSE @[p]]]

\* What one call of ServiceManager.Start does to the state.
DoStart(s, spawnOk) ==
  LET res == Start(s, sm[s], config[s], now, children, external, spawnOk) IN
  /\ s \notin rlocked
  /\ sm' = [sm EXCEPT ![s] = res.sm]
  /\ children' = Reap(res.children, [sm EXCEPT ![s] = res.sm])
  /\ streak' = [streak EXCEPT ![s] = IF res.err = "spawn" THEN @ + 1 ELSE @]
  /\ spawnedAfterStop' = (spawnedAfterStop \/ (res.err = "" /\ mgr = "stopped"))

\* What one call of ServiceManager.Stop does to the state.
DoStop(s, obeys) ==
  LET res == Stop(sm[s], children, obeys) IN
  /\ s \notin rlocked
  /\ sm' = [sm EXCEPT ![s] = res.sm]
  /\ children' = Reap(res.children, [sm EXCEPT ![s] = res.sm])

\* ------------------------------------------------------------------- Init
\* The Manager before Start, for a configuration and foreign ports given.
InitManager ==
  /\ now = 1
  /\ sm = [s \in Names |-> NewServiceManager(config[s])]
  /\ children = <<>>
  /\ mgr = "new"
  /\ mgrLock = FALSE
  /\ toStart = {}
  /\ toStop = {}
  /\ stopCalls = 0
  /\ kubernetesContext = ""
  /\ kctx = "alpha"
  /\ ctxChanges = 0
  /\ ctxCancelled = FALSE
  /\ tickerOn = FALSE
  /\ tickBuffered = FALSE
  /\ nextFire = 0
  /\ loopPc = "none"
  /\ toMonitor = {}
  /\ statusChan = <<>>
  /\ chanClosed = FALSE
  /\ panicked = FALSE
  /\ restartTasks = NoTasks
  /\ globalRestart = <<>>
  /\ invoked = [s \in Names |-> 0]
  /\ incremented = [s \in Names |-> 0]
  /\ streak = [s \in Names |-> 0]
  /\ spawnedAfterStop = FALSE
  /\ calls = <<>>
  /\ rlocked = {}
  /\ tickStart = [s \in Names |-> 0]
  /\ built = 0
  /\ lastReceived = 0
  /\ startErrors = 0

\* No call of ResolvePortConflicts.
Unassigned == [n \in {} |-> 0]

\* No GRPCUIManager.
InitNoHelpers ==
  /\ svcType = Unassigned
  /\ gmEnabled = FALSE
  /\ gmServices = Unassigned
  /\ gmTasks = <<>>
  /\ helperProcs = <<>>
  /\ gmSnapshot = Unassigned
  /\ gmCall = [op |-> "none"]
  /\ reconciles = 0

\* No call of FindAvailablePort on its own.
InitNoProbe == probeFrom = 0 /\ found = 0 /\ probes = 0

Init ==
  /\ config \in Configs
  /\ external \in Externals
  /\ Cardinality(DOMAIN config) > 1 => external = {}
  /\ InitManager
  /\ InitNoHelpers
  /\ InitNoProbe
  /\ services = Unassigned
  /\ portAssignments = Unassigned
  /\ usedPorts = {}
  /\ resolvePc = "none"
  /\ pending = {}
  /\ portCache = Unassigned
  /\ previous = <<>>

\* ---------------------------------------------------------- Manager.Start
\* Lock, read the kubectl context (an error ends Start), build the service
\* managers.
ManagerStartBegin(readOk) ==
  /\ mgr = "new" /\ ~mgrLock /\ ~panicked
  /\ IF readOk
     THEN /\ kubernetesContext' = kctx
          /\ sm' = [s \in Names |-> NewServiceManager(config[s])]
          /\ toStart' = Names
          /\ mgr' = "starting"
          /\ mgrLock' = TRUE
     ELSE /\ mgr' = "startFailed"
          /\ UNCHANGED <<kubernetesContext, sm, toStart, mgrLock>>
  /\ UNCHANGED <<resolveVars, uiVars, probeVars, built, lastReceived, startErrors, tickStart, calls, rlocked, config, external, now, children, toStop, stopCalls, kctx,
                 ctxChanges, ctxCancelled, tickerOn, tickBuffered, nextFire,
                 loopPc, toMonitor, statusChan, chanClosed,
                 panicked, restartTasks, globalRestart, invoked, incremented,
                 streak, spawnedAfterStop>>

\* One iteration of the loop that starts every service (map order).
ManagerStartService(B, s, spawnOk) ==
  /\ mgr = "starting" /\ s \in toStart /\ ~panicked
  /\ spawnOk \/ MayFail(B)
  /\ DoStart(s, spawnOk)
  /\ startErrors' =
       IF Start(s, sm[s], config[s], now, children, external, spawnOk).err = ""
       THEN startErrors ELSE startErrors + 1
  /\ toStart' = toStart \ {s}
  /\ UNCHANGED <<resolveVars, uiVars, probeVars, built, lastReceived, tickStart, calls, rlocked, config, external, now, mgr, mgrLock, toStop, stopCalls,
                 kubernetesContext, kctx, ctxChanges, ctxCancelled, tickerOn,
                 tickBuffered, nextFire, loopPc, toMonitor, statusChan,
                 chanClosed, panicked, restartTasks, globalRestart,
                 invoked, incremented>>

\* startMonitoring, then Start returns and unlocks.
ManagerStartMonitoring ==
  /\ mgr = "starting" /\ toStart = {} /\ ~panicked
  /\ tickerOn' = TRUE
  /\ nextFire' = now + MonitoringInterval
  /\ loopPc' = "idle"
  /\ mgr' = "running"
  /\ mgrLock' = FALSE
  /\ UNCHANGED <<resolveVars, uiVars, probeVars, built, lastReceived, startErrors, tickStart, calls, rlocked, config, external, now, sm, children, toStart, toStop,
                 stopCalls, kubernetesContext, kctx, ctxChanges, ctxCancelled,
                 tickBuffered, toMonitor, statusChan, chanClosed, panicked, restartTasks, globalRestart, invoked,
                 incremented, streak, spawnedAfterStop>>

\* ------------------------------------------------- the monitoring goroutine
\* select: the ticker's channel delivers; monitorServices begins and waits
\* for the Manager's read lock if Start or Stop holds the mutex.
LoopTick ==
  /\ loopPc = "idle" /\ tickBuffered /\ ~panicked
  /\ tickBuffered' = FALSE
  /\ tickStart' = [s \in Names |-> sm[s].RestartCount]
  /\ IF mgrLock
     THEN loopPc' = "monitorLock" /\ UNCHANGED toMonitor
     ELSE loopPc' = "monitor" /\ toMonitor' = Names
  /\ UNCHANGED <<resolveVars, uiVars, probeVars, built, lastReceived, startErrors, calls, rlocked, config, external, now, sm, children, mgr, mgrLock, toStart,
                 toStop, stopCalls, kubernetesContext, kctx, ctxChanges,
                 ctxCancelled, tickerOn, nextFire, statusChan, chanClosed, panicked, restartTasks, globalRestart, invoked,
                 incremented, streak, spawnedAfterStop>>

\* monitorServices gets the read lock and copies the service map.
MonitorBegin ==
  /\ loopPc = "monitorLock" /\ ~mgrLock /\ ~panicked
  /\ loopPc' = "monitor"
  /\ toMonitor' = Names
  /\ UNCHANGED <<resolveVars, uiVars, probeVars, built, lastReceived, startErrors, tickStart, calls, rlocked, config, external, now, sm, children, mgr, mgrLock, toStart,
                 toStop, stopCalls, kubernetesContext, kctx, ctxChanges,
                 ctxCancelled, tickerOn, tickBuffered, nextFire,
                 statusChan, chanClosed, panicked, restartTasks,
                 globalRestart, invoked, incremented, streak,
                 spawnedAfterStop>>

\* A Restart of restartAllServices has called Lock on the mutex of s inside
\* its Stop and waits for the reader to leave.  sync.RWMutex lets no further
\* RLock in while a Lock is waiting.
WriterPending(s) ==
  \E i \in 1..Len(globalRestart) :
    globalRestart[i].pc = "stopwait" /\ globalRestart[i].cur = s

\* The snapshot of GetStatus asks for a restart.
NeedsRestart(status) == status.Status = "Failed" /\ ~status.InCooldown

\* One iteration of monitorServices' loop: GetStatus, and `go Restart()` for
\* a service that is Failed and not flagged InCooldown.
MonitorService(B, s) ==
  LET status == GetStatus(sm[s], children, external) IN
  /\ loopPc = "monitor" /\ s \in toMonitor /\ ~panicked
  /\ rlocked = {}
  /\ NeedsRestart(status) => MayRestart(B)
  /\ sm' = [sm EXCEPT ![s] = status]
  /\ toMonitor' = toMonitor \ {s}
  /\ IF NeedsRestart(status)
     THEN /\ restartTasks' = [restartTasks EXCEPT ![s]["stop"] = @ + 1]
          /\ invoked' = [invoked EXCEPT ![s] = @ + 1]
     ELSE UNCHANGED <<restartTasks, invoked>>
  /\ streak' = [streak EXCEPT ![s] =
                  IF sm[s].Status # "Running" THEN @
                  ELSE IF status.Status = "Failed" THEN @ + 1 ELSE 0]
  /\ UNCHANGED <<resolveVars, uiVars, probeVars, built, lastReceived, startErrors, tickStart, calls, rlocked, config, external, now, children, mgr, mgrLock, toStart,
                 toStop, stopCalls, kubernetesContext, kctx, ctxChanges,
                 ctxCancelled, tickerOn, tickBuffered, nextFire, loopPc, statusChan, chanClosed, panicked,
                 globalRestart, incremented, spawnedAfterStop>>

\* MonitorService taken apart at the locks of GetStatus.  GetStatus takes the
\* read lock of the service's mutex ...
GetStatusBegin(B, s) ==
  /\ loopPc = "monitor" /\ s \in toMonitor /\ ~panicked
  /\ rlocked = {} /\ ~WriterPending(s)
  /\ MayRestart(B)
  /\ rlocked' = {s}
  /\ UNCHANGED <<resolveVars, uiVars, probeVars, built, lastReceived, startErrors, tickStart, calls, config, external, now, sm, children, mgr,
                 mgrLock, toStart, toStop, stopCalls, kubernetesContext, kctx,
                 ctxChanges, ctxCancelled, tickerOn, tickBuffered, nextFire,
                 loopPc, toMonitor, statusChan, chanClosed, panicked,
                 restartTasks, globalRestart, invoked, incremented, streak,
                 spawnedAfterStop>>

\* ... and, for a service in phase Running, calls IsHealthy, which takes the
\* read lock again: that RLock waits as long as a Lock is waiting.  Then the
\* rest of the iteration, as in MonitorService.
GetStatusEnd(s) ==
  LET status == GetStatus(sm[s], children, external) IN
  /\ loopPc = "monitor" /\ s \in rlocked /\ ~panicked
  /\ sm[s].Status = "Running" => ~WriterPending(s)
  /\ rlocked' = rlocked \ {s}
  /\ sm' = [sm EXCEPT ![s] = status]
  /\ toMonitor' = toMonitor \ {s}
  /\ IF NeedsRestart(status)
     THEN /\ restartTasks' = [restartTasks EXCEPT ![s]["stop"] = @ + 1]
          /\ invoked' = [invoked EXCEPT ![s] = @ + 1]
     ELSE UNCHANGED <<restartTasks, invoked>>
  /\ streak' = [streak EXCEPT ![s] =
                  IF sm[s].Status # "Running" THEN @
                  ELSE IF status.Status = "Failed" THEN @ + 1 ELSE 0]
  /\ UNCHANGED <<resolveVars, uiVars, probeVars, built, lastReceived, startErrors, tickStart, calls, config, external, now, children, mgr,
                 mgrLock, toStart, toStop, stopCalls, kubernetesContext, kctx,
                 ctxChanges, ctxCancelled, tickerOn, tickBuffered, nextFire,
                 loopPc, statusChan, chanClosed, panicked, globalRestart,
                 incremented, spawnedAfterStop>>

\* A publish that waits for room in the channel: what MonitorPublish must not
\* be.
MonitorPublishBlocking ==
  /\ loopPc = "monitor" /\ toMonitor = {} /\ ~mgrLock /\ ~panicked
  /\ ~chanClosed /\ Len(statusChan) < StatusChanCap
  /\ built' = built + 1
  /\ statusChan' = Append(statusChan, built + 1)
  /\ loopPc' = "checkctx"
  /\ UNCHANGED <<resolveVars, uiVars, probeVars, lastReceived, startErrors, tickStart, calls, rlocked, config, external, now, sm, children, mgr,
                 mgrLock, toStart, toStop, stopCalls, kubernetesContext, kctx,
                 ctxChanges, ctxCancelled, tickerOn, tickBuffered, nextFire,
                 toMonitor, chanClosed, panicked, restartTasks, globalRestart,
                 invoked, incremented, streak, spawnedAfterStop>>

\* monitorUIHandlers (read lock), then the non-blocking send of the snapshot:
\* a send on a closed channel panics, a full buffer drops the snapshot.
MonitorPublish ==
  /\ loopPc = "monitor" /\ toMonitor = {} /\ ~mgrLock /\ ~panicked
  /\ IF chanClosed
     THEN panicked' = TRUE /\ UNCHANGED statusChan
     ELSE /\ UNCHANGED panicked
          /\ statusChan' = IF Len(statusChan) < StatusChanCap
                           THEN Append(statusChan, built + 1)
                           ELSE statusChan
  /\ built' = built + 1
  /\ loopPc' = "checkctx"
  /\ UNCHANGED <<resolveVars, uiVars, probeVars, lastReceived, startErrors, tickStart, calls, rlocked, config, external, now, sm, children, mgr, mgrLock, toStart,
                 toStop, stopCalls, kubernetesContext, kctx, ctxChanges,
                 ctxCancelled, tickerOn, tickBuffered, nextFire, toMonitor, chanClosed, restartTasks, globalRestart,
                 invoked, incremented, streak, spawnedAfterStop>>

\* checkKubernetesContext: a failed read returns; a changed context is stored
\* and `go restartAllServices()` is dispatched.
CheckContext(readOk) ==
  /\ loopPc = "checkctx" /\ ~panicked
  /\ readOk => ~mgrLock
  /\ IF readOk /\ kctx # kubernetesContext
     THEN /\ kubernetesContext' = kctx
          /\ globalRestart' = Append(globalRestart,
                                [pc |-> "copy", left |-> {}, cur |-> "",
                                 before |-> tickStart])
     ELSE UNCHANGED <<kubernetesContext, globalRestart>>
  /\ loopPc' = "idle"
  /\ tickStart' = [s \in Names |-> 0]
  /\ UNCHANGED <<resolveVars, uiVars, probeVars, built, lastReceived, startErrors, calls, rlocked, config, external, now, sm, children, mgr, mgrLock, toStart,
                 toStop, stopCalls, kctx, ctxChanges, ctxCancelled, tickerOn,
                 tickBuffered, nextFire, toMonitor, statusChan,
                 chanClosed, panicked, restartTasks, invoked,
                 incremented, streak, spawnedAfterStop>>

\* select: ctx.Done() delivers; the goroutine returns (its deferred
\* ticker.Stop runs).
LoopExit ==
  /\ loopPc = "idle" /\ ctxCancelled /\ ~panicked
  /\ loopPc' = "exited"
  /\ tickerOn' = FALSE
  /\ UNCHANGED <<resolveVars, uiVars, probeVars, built, lastReceived, startErrors, tickStart, calls, rlocked, config, external, now, sm, children, mgr, mgrLock, toStart,
                 toStop, stopCalls, kubernetesContext, kctx, ctxChanges,
                 ctxCancelled, tickBuffered, nextFire, toMonitor,
                 statusChan, chanClosed, panicked, restartTasks,
                 globalRestart, invoked, incremented, streak,
                 spawnedAfterStop>>

\* ------------------------------------------------- ServiceManager.Restart
\* Manager.RestartService: look the service up (read lock), call Restart.
RestartService(B, s) ==
  /\ mgr = "running" /\ ~mgrLock /\ ~panicked
  /\ MayRestart(B)
  /\ restartTasks' = [restartTasks EXCEPT ![s]["stop"] = @ + 1]
  /\ invoked' = [invoked EXCEPT ![s] = @ + 1]
  /\ UNCHANGED <<resolveVars, uiVars, probeVars, built, lastReceived, startErrors, tickStart, calls, rlocked, config, external, now, sm, children, mgr, mgrLock, toStart,
                 toStop, stopCalls, kubernetesContext, kctx, ctxChanges,
                 ctxCancelled, tickerOn, tickBuffered, nextFire, loopPc,
                 toMonitor, statusChan, chanClosed,
                 panicked, globalRestart, incremented, streak,
                 spawnedAfterStop>>

\* Restart, first step: sm.Stop().
RestartStop(B, s, obeys) ==
  /\ restartTasks[s]["stop"] > 0 /\ ~panicked
  /\ obeys \/ B.stubborn
  /\ DoStop(s, obeys)
  /\ MoveTask(s, "stop", "incr")
  /\ UNCHANGED <<resolveVars, uiVars, probeVars, built, lastReceived, startErrors, tickStart, calls, rlocked, config, external, now, mgr, mgrLock, toStart, toStop,
                 stopCalls, kubernetesContext, kctx, ctxChanges, ctxCancelled,
                 tickerOn, tickBuffered, nextFire, loopPc, toMonitor,
                 statusChan, chanClosed, panicked, globalRestart,
                 invoked, incremented, streak, spawnedAfterStop>>

\* Restart, second step: RestartCount++ under the mutex.
RestartIncr(s) ==
  /\ restartTasks[s]["incr"] > 0 /\ ~panicked
  /\ s \notin rlocked
  /\ sm' = [sm EXCEPT ![s] = RestartIncrement(@)]
  /\ incremented' = [incremented EXCEPT ![s] = @ + 1]
  /\ MoveTask(s, "incr", "start")
  /\ UNCHANGED <<resolveVars, uiVars, probeVars, built, lastReceived, startErrors, tickStart, calls, rlocked, config, external, now, children, mgr, mgrLock, toStart,
                 toStop, stopCalls, kubernetesContext, kctx, ctxChanges,
                 ctxCancelled, tickerOn, tickBuffered, nextFire, loopPc,
                 toMonitor, statusChan, chanClosed,
                 panicked, globalRestart, invoked, streak,
                 spawnedAfterStop>>

\* Restart, third step: sm.Start(); the invocation returns.
RestartStart(B, s, spawnOk) ==
  /\ restartTasks[s]["start"] > 0 /\ ~panicked
  /\ spawnOk \/ MayFail(B)
  /\ DoStart(s, spawnOk)
  /\ restartTasks' = [restartTasks EXCEPT ![s]["start"] = @ - 1]
  /\ UNCHANGED <<resolveVars, uiVars, probeVars, built, lastReceived, startErrors, tickStart, calls, rlocked, config, external, now, mgr, mgrLock, toStart, toStop,
                 stopCalls, kubernetesContext, kctx, ctxChanges, ctxCancelled,
                 tickerOn, tickBuffered, nextFire, loopPc, toMonitor,
                 statusChan, chanClosed, panicked, globalRestart,
                 invoked, incremented>>

\* ------------------------------------------------------ restartAllServices
RemoveAt(q, i) == [j \in 1..(Len(q) - 1) |-> IF j < i THEN q[j] ELSE q[j + 1]]

\* The goroutine gets the read lock and copies the services into a slice.
GlobalCopy(i) ==
  /\ i \in 1..Len(globalRestart) /\ ~panicked
  /\ globalRestart[i].pc = "copy" /\ ~mgrLock
  /\ globalRestart' = [globalRestart EXCEPT ![i].pc = "stop", ![i].left = Names]
  /\ UNCHANGED <<resolveVars, uiVars, probeVars, built, lastReceived, startErrors, tickStart, calls, rlocked, config, external, now, sm, children, mgr, mgrLock, toStart,
                 toStop, stopCalls, kubernetesContext, kctx, ctxChanges,
                 ctxCancelled, tickerOn, tickBuffered, nextFire, loopPc,
                 toMonitor, statusChan, chanClosed, panicked,
                 restartTasks, invoked, incremented, streak,
                 spawnedAfterStop>>

\* The next service of the slice: Restart is called, its sm.Stop() runs; or
\* the Restart that waited for the mutex in its sm.Stop() goes on.
GlobalStop(B, i, s, obeys) ==
  /\ i \in 1..Len(globalRestart) /\ ~panicked
  /\ \/ /\ globalRestart[i].pc = "stop" /\ s \in globalRestart[i].left
        /\ MayRestart(B)
        /\ invoked' = [invoked EXCEPT ![s] = @ + 1]
     \/ /\ globalRestart[i].pc = "stopwait" /\ s = globalRestart[i].cur
        /\ UNCHANGED invoked
  /\ obeys \/ B.stubborn
  /\ DoStop(s, obeys)
  /\ globalRestart' = [globalRestart EXCEPT ![i].pc = "incr", ![i].cur = s,
                                            ![i].left = @ \ {s}]
  /\ UNCHANGED <<resolveVars, uiVars, probeVars, built, lastReceived, startErrors, tickStart, calls, rlocked, config, external, now, mgr, mgrLock, toStart, toStop,
                 stopCalls, kubernetesContext, kctx, ctxChanges, ctxCancelled,
                 tickerOn, tickBuffered, nextFire, loopPc, toMonitor,
                 statusChan, chanClosed, panicked, restartTasks,
                 incremented, streak, spawnedAfterStop>>

\* The next service of the slice: Restart is called, and the Lock of its
\* sm.Stop() finds GetStatus holding the mutex for reading: it waits.
GlobalStopWait(B, i, s) ==
  /\ i \in 1..Len(globalRestart) /\ ~panicked
  /\ globalRestart[i].pc = "stop" /\ s \in globalRestart[i].left
  /\ MayRestart(B)
  /\ s \in rlocked
  /\ invoked' = [invoked EXCEPT ![s] = @ + 1]
  /\ globalRestart' = [globalRestart EXCEPT ![i].pc = "stopwait", ![i].cur = s,
                                            ![i].left = @ \ {s}]
  /\ UNCHANGED <<resolveVars, uiVars, probeVars, built, lastReceived, startErrors, tickStart, calls, rlocked, config, external, now, sm,
                 children, mgr, mgrLock, toStart, toStop, stopCalls,
                 kubernetesContext, kctx, ctxChanges, ctxCancelled, tickerOn,
                 tickBuffered, nextFire, loopPc, toMonitor, statusChan,
                 chanClosed, panicked, restartTasks, incremented, streak,
                 spawnedAfterStop>>

GlobalIncr(i) ==
  /\ i \in 1..Len(globalRestart) /\ ~panicked
  /\ globalRestart[i].pc = "incr"
  /\ globalRestart[i].cur \notin rlocked
  /\ sm' = [sm EXCEPT ![globalRestart[i].cur] = RestartIncrement(@)]
  /\ incremented' = [incremented EXCEPT ![globalRestart[i].cur] = @ + 1]
  /\ globalRestart' = [globalRestart EXCEPT ![i].pc = "start"]
  /\ UNCHANGED <<resolveVars, uiVars, probeVars, built, lastReceived, startErrors, tickStart, calls, rlocked, config, external, now, children, mgr, mgrLock, toStart,
                 toStop, stopCalls, kubernetesContext, kctx, ctxChanges,
                 ctxCancelled, tickerOn, tickBuffered, nextFire, loopPc,
                 toMonitor, statusChan, chanClosed, panicked,
                 restartTasks, invoked, streak, spawnedAfterStop>>

\* Restart's sm.Start(); after the last service the goroutine ends.
GlobalStart(B, i, spawnOk) ==
  /\ i \in 1..Len(globalRestart) /\ ~panicked
  /\ globalRestart[i].pc = "start"
  /\ spawnOk \/ MayFail(B)
  /\ DoStart(globalRestart[i].cur, spawnOk)
  /\ globalRestart' =
       IF globalRestart[i].left = {}
       THEN RemoveAt(globalRestart, i)
       ELSE [globalRestart EXCEPT ![i].pc = "stop", ![i].cur = ""]
  /\ UNCHANGED <<resolveVars, uiVars, probeVars, built, lastReceived, startErrors, tickStart, calls, rlocked, config, external, now, mgr, mgrLock, toStart, toStop,
                 stopCalls, kubernetesContext, kctx, ctxChanges, ctxCancelled,
                 tickerOn, tickBuffered, nextFire, loopPc, toMonitor,
                 statusChan, chanClosed, panicked, restartTasks,
                 invoked, incremented>>

\* ----------------------------------------------------------- Manager.Stop
\* Lock; stop the ticker; stop the UI handlers.  Nothing in Stop refuses a
\* second call.
ManagerStopBegin ==
  /\ mgr \in {"running", "stopped"} /\ ~mgrLock /\ ~panicked
  /\ mgrLock' = TRUE
  /\ tickerOn' = FALSE
  /\ toStop' = Names
  /\ mgr' = "stopping"
  /\ UNCHANGED <<resolveVars, uiVars, probeVars, built, lastReceived, startErrors, tickStart, calls, rlocked, config, external, now, sm, children, toStart, stopCalls,
                 kubernetesContext, kctx, ctxChanges, ctxCancelled,
                 tickBuffered, nextFire, loopPc, toMonitor, statusChan,
                 chanClosed, panicked, restartTasks, globalRestart,
                 invoked, incremented, streak, spawnedAfterStop>>

\* One iteration of the loop that stops every service.
ManagerStopService(B, s, obeys) ==
  /\ mgr = "stopping" /\ s \in toStop /\ ~panicked
  /\ obeys \/ B.stubborn
  /\ DoStop(s, obeys)
  /\ toStop' = toStop \ {s}
  /\ UNCHANGED <<resolveVars, uiVars, probeVars, built, lastReceived, startErrors, tickStart, calls, rlocked, config, external, now, mgr, mgrLock, toStart, stopCalls,
                 kubernetesContext, kctx, ctxChanges, ctxCancelled, tickerOn,
                 tickBuffered, nextFire, loopPc, toMonitor, statusChan,
                 chanClosed, panicked, restartTasks, globalRestart,
                 invoked, incremented, streak, spawnedAfterStop>>

\* m.cancel(); close(m.statusChan), which panics on a closed channel; return.
ManagerStopEnd ==
  /\ mgr = "stopping" /\ toStop = {} /\ ~panicked
  /\ ctxCancelled' = TRUE
  /\ IF chanClosed
     THEN panicked' = TRUE /\ UNCHANGED <<chanClosed, mgrLock>>
     ELSE chanClosed' = TRUE /\ mgrLock' = FALSE /\ UNCHANGED panicked
  /\ mgr' = "stopped"
  /\ stopCalls' = stopCalls + 1
  /\ UNCHANGED <<resolveVars, uiVars, probeVars, built, lastReceived, startErrors, tickStart, calls, rlocked, config, external, now, sm, children, toStart, toStop,
                 kubernetesContext, kctx, ctxChanges, tickerOn, tickBuffered,
                 nextFire, loopPc, toMonitor, statusChan,
                 restartTasks, globalRestart, invoked, incremented, streak, spawnedAfterStop>>

\* ------------------------------------------------------------ environment
\* A child binds its local port, or exits because the port is taken.
ChildBind(pid) ==
  /\ pid \in 1..Len(children) /\ children[pid].st = "unbound"
  /\ children' = Reap([children EXCEPT ![pid].st =
                         IF IsPortAvailable(children[pid].port, children, external)
                         THEN "bound" ELSE "dead"], sm)
  /\ UNCHANGED <<resolveVars, uiVars, probeVars, built, lastReceived, startErrors, tickStart, calls, rlocked, config, external, now, sm, mgr, mgrLock, toStart, toStop,
                 stopCalls, kubernetesContext, kctx, ctxChanges, ctxCancelled,
                 tickerOn, tickBuffered, nextFire, loopPc, toMonitor,
                 statusChan, chanClosed, panicked, restartTasks,
                 globalRestart, invoked, incremented, streak,
                 spawnedAfterStop>>

\* A child exits on its own (the pod went away, the connection was lost).
ChildExit(pid) ==
  /\ pid \in 1..Len(children) /\ Alive(children[pid])
  /\ children' = Reap([children EXCEPT ![pid].st = "dead"], sm)
  /\ UNCHANGED <<resolveVars, uiVars, probeVars, built, lastReceived, startErrors, tickStart, calls, rlocked, config, external, now, sm, mgr, mgrLock, toStart, toStop,
                 stopCalls, kubernetesContext, kctx, ctxChanges, ctxCancelled,
                 tickerOn, tickBuffered, nextFire, loopPc, toMonitor,
                 statusChan, chanClosed, panicked, restartTasks,
                 globalRestart, invoked, incremented, streak,
                 spawnedAfterStop>>

\* Time passes.  The clock is read at the instants of the ticker's grid, one
\* MonitoringInterval apart; a running ticker fires when its time has come
\* (the one-place channel keeps one undelivered tick).
AdvanceClock(B) ==
  /\ now + MonitoringInterval <= B.time
  /\ now' = now + MonitoringInterval
  /\ IF tickerOn /\ now + MonitoringInterval >= nextFire
     THEN tickBuffered' = TRUE /\ nextFire' = nextFire + MonitoringInterval
     ELSE UNCHANGED <<tickBuffered, nextFire>>
  /\ UNCHANGED <<resolveVars, uiVars, probeVars, built, lastReceived, startErrors, tickStart, calls, rlocked, config, external, sm, children, mgr, mgrLock, toStart,
                 toStop, stopCalls, kubernetesContext, kctx, ctxChanges,
                 ctxCancelled, tickerOn, loopPc, toMonitor, statusChan,
                 chanClosed, panicked, restartTasks, globalRestart,
                 invoked, incremented, streak, spawnedAfterStop>>

\* The user switches the kubectl context.  Only checkKubernetesContext reads
\* the context after start-up, so every switch since the previous read is
\* placed just before the next one.
ContextSwitch ==
  /\ ctxChanges < MaxContextChanges
  /\ loopPc = "checkctx"
  /\ kctx' \in Contexts \ {kctx}
  /\ ctxChanges' = ctxChanges + 1
  /\ UNCHANGED <<resolveVars, uiVars, probeVars, built, lastReceived, startErrors, tickStart, calls, rlocked, config, external, now, sm, children, mgr, mgrLock, toStart,
                 toStop, stopCalls, kubernetesContext, ctxCancelled, tickerOn,
                 tickBuffered, nextFire, loopPc, toMonitor, statusChan,
                 chanClosed, panicked, restartTasks, globalRestart,
                 invoked, incremented, streak, spawnedAfterStop>>

\* A receive that leaves the snapshot in the channel: what ReceiveStatus must
\* not be.
ReceiveStatusAgain ==
  /\ statusChan # <<>> /\ ~panicked
  /\ lastReceived' = Head(statusChan)
  /\ UNCHANGED <<resolveVars, uiVars, probeVars, built, startErrors,
                 tickStart, calls, rlocked, config, external, now, sm,
                 children, mgr, mgrLock, toStart, toStop, stopCalls,
                 kubernetesContext, kctx, ctxChanges, ctxCancelled, tickerOn,
                 tickBuffered, nextFire, loopPc, toMonitor, statusChan,
                 chanClosed, panicked, restartTasks, globalRestart, invoked,
                 incremented, streak, spawnedAfterStop>>

\* The observer takes a snapshot from the status channel.
ReceiveStatus ==
  /\ statusChan # <<>> /\ ~panicked
  /\ lastReceived' = Head(statusChan)
  /\ statusChan' = Tail(statusChan)
  /\ UNCHANGED <<resolveVars, uiVars, probeVars, built, startErrors, tickStart, calls, rlocked, config, external, now, sm, children, mgr, mgrLock, toStart,
                 toStop, stopCalls, kubernetesContext, kctx, ctxChanges,
                 ctxCancelled, tickerOn, tickBuffered, nextFire, loopPc,
                 toMonitor, chanClosed, panicked, restartTasks,
                 globalRestart, invoked, incremented, streak,
                 spawnedAfterStop>>

\* ------------------------------------------------------------------- Next
\* The whole program and its environment.
Next ==
  \/ \E readOk \in BOOLEAN : ManagerStartBegin(readOk)
  \/ \E s \in Names, spawnOk \in BOOLEAN : ManagerStartService(Wide, s, spawnOk)
  \/ ManagerStartMonitoring
  \/ LoopTick
  \/ MonitorBegin
  \/ \E s \in Names : MonitorService(Wide, s)
  \/ MonitorPublish
  \/ \E readOk \in BOOLEAN : CheckContext(readOk)
  \/ LoopExit
  \/ \E s \in Names, obeys \in BOOLEAN : RestartStop(Wide, s, obeys)
  \/ \E s \in Names : RestartIncr(s)
  \/ \E s \in Names, spawnOk \in BOOLEAN : RestartStart(Wide, s, spawnOk)
  \/ \E i \in 1..Len(globalRestart) : GlobalCopy(i)
  \/ \E i \in 1..Len(globalRestart), s \in Names, obeys \in BOOLEAN :
       GlobalStop(Wide, i, s, obeys)
  \/ \E i \in 1..Len(globalRestart) : GlobalIncr(i)
  \/ \E i \in 1..Len(globalRestart), spawnOk \in BOOLEAN : GlobalStart(Wide, i, spawnOk)
  \/ ManagerStopBegin
  \/ \E s \in Names, obeys \in BOOLEAN : ManagerStopService(Wide, s, obeys)
  \/ ManagerStopEnd
  \/ \E pid \in 1..Len(children) : ChildBind(pid)
  \/ \E pid \in 1..Len(children) : ChildExit(pid)
  \/ AdvanceClock(Wide)
  \/ ContextSwitch
  \/ ReceiveStatus

Spec == Init /\ [][Next]_vars

\* The configurations of one service.
InitOne == Init /\ DOMAIN config = {"a"}

\* One service under supervision by every caller of Restart, without shutdown
\* and observer.
NextSupervise ==
  \/ \E readOk \in BOOLEAN : ManagerStartBegin(readOk)
  \/ \E s \in Names, spawnOk \in BOOLEAN : ManagerStartService(Deep, s, spawnOk)
  \/ ManagerStartMonitoring
  \/ LoopTick
  \/ \E s \in Names : MonitorService(Deep, s)
  \/ MonitorPublish
  \/ \E readOk \in BOOLEAN : CheckContext(readOk)
  \/ \E s \in Names : RestartService(Deep, s)
  \/ \E s \in Names, obeys \in BOOLEAN : RestartStop(Deep, s, obeys)
  \/ \E s \in Names : RestartIncr(s)
  \/ \E s \in Names, spawnOk \in BOOLEAN : RestartStart(Deep, s, spawnOk)
  \/ \E i \in 1..Len(globalRestart) : GlobalCopy(i)
  \/ \E i \in 1..Len(globalRestart), s \in Names, obeys \in BOOLEAN :
       GlobalStop(Deep, i, s, obeys)
  \/ \E i \in 1..Len(globalRestart) : GlobalIncr(i)
  \/ \E i \in 1..Len(globalRestart), spawnOk \in BOOLEAN : GlobalStart(Deep, i, spawnOk)
  \/ \E pid \in 1..Len(children) : ChildBind(pid)
  \/ \E pid \in 1..Len(children) : ChildExit(pid)
  \/ AdvanceClock(Deep)
  \/ ContextSwitch

SpecSupervise == InitOne /\ [][NextSupervise]_vars

\* One service, tick-dispatched restarts only, for the longest.
NextProbe ==
  \/ \E readOk \in BOOLEAN : ManagerStartBegin(readOk)
  \/ \E s \in Names, spawnOk \in BOOLEAN : ManagerStartService(Long, s, spawnOk)
  \/ ManagerStartMonitoring
  \/ LoopTick
  \/ \E s \in Names : MonitorService(Long, s)
  \/ MonitorPublish
  \/ \E readOk \in BOOLEAN : CheckContext(readOk)
  \/ \E s \in Names, obeys \in BOOLEAN : RestartStop(Long, s, obeys)
  \/ \E s \in Names : RestartIncr(s)
  \/ \E s \in Names, spawnOk \in BOOLEAN : RestartStart(Long, s, spawnOk)
  \/ \E pid \in 1..Len(children) : ChildBind(pid)
  \/ \E pid \in 1..Len(children) : ChildExit(pid)
  \/ AdvanceClock(Long)

SpecProbe == InitOne /\ [][NextProbe]_vars

\* The configurations of two services.
InitTwo == Init /\ DOMAIN config = {"a", "b"}

\* The budgets of the context watch: the restarts the ticks may dispatch, and
\* on top of them those of every global restart, which therefore never waits
\* for the budget.
Watch == [time |-> WatchTime, restarts |-> WatchRestarts, failures |-> 0,
          stubborn |-> FALSE]
WatchAll == [Watch EXCEPT
               !.restarts = WatchRestarts + MaxContextChanges * MaxServices]

\* The steps of the restartAllServices goroutines.
GlobalRestartSteps ==
  \/ \E i \in 1..Len(globalRestart) : GlobalCopy(i)
  \/ \E i \in 1..Len(globalRestart), s \in Names, obeys \in BOOLEAN :
       GlobalStop(WatchAll, i, s, obeys)
  \/ \E i \in 1..Len(globalRestart), s \in Names : GlobalStopWait(WatchAll, i, s)
  \/ \E i \in 1..Len(globalRestart) : GlobalIncr(i)
  \/ \E i \in 1..Len(globalRestart), spawnOk \in BOOLEAN : GlobalStart(Watch, i, spawnOk)

\* The steps of the monitoring goroutine, GetStatus taken apart at its locks.
MonitoringSteps ==
  \/ LoopTick
  \/ \E s \in Names : GetStatusBegin(Watch, s)
  \/ \E s \in Names : GetStatusEnd(s)
  \/ MonitorPublish
  \/ \E readOk \in BOOLEAN : CheckContext(readOk)

\* The steps of the Restart goroutines the ticks dispatch.
TickRestartSteps ==
  \/ \E s \in Names, obeys \in BOOLEAN : RestartStop(Watch, s, obeys)
  \/ \E s \in Names : RestartIncr(s)
  \/ \E s \in Names, spawnOk \in BOOLEAN : RestartStart(Watch, s, spawnOk)

\* Two services while the kubectl context is switched, without shutdown and
\* observer.
NextWatch ==
  \/ \E readOk \in BOOLEAN : ManagerStartBegin(readOk)
  \/ \E s \in Names, spawnOk \in BOOLEAN : ManagerStartService(Watch, s, spawnOk)
  \/ ManagerStartMonitoring
  \/ MonitoringSteps
  \/ TickRestartSteps
  \/ GlobalRestartSteps
  \/ \E pid \in 1..Len(children) : ChildBind(pid)
  \/ AdvanceClock(Watch)
  \/ ContextSwitch

\* The Go scheduler runs every goroutine that can run: no goroutine that can
\* take a step waits for ever.
SpecWatch ==
  /\ InitTwo /\ [][NextWatch]_vars
  /\ WF_vars(GlobalRestartSteps)
  /\ WF_vars(MonitoringSteps)
  /\ WF_vars(TickRestartSteps)

\* main: Manager.Start has returned an error, which main logs before it calls
\* os.Exit(1).  The process ends with all its goroutines; its children are
\* not signalled.
MainExit ==
  /\ ~panicked
  /\ mgr = "startFailed" \/ (mgr = "running" /\ startErrors > 0)
  /\ mgr' = "exited"
  /\ panicked' = TRUE
  /\ UNCHANGED <<resolveVars, uiVars, probeVars, built, lastReceived,
                 startErrors, tickStart, calls, rlocked, config, external,
                 now, sm, children, mgrLock, toStart, toStop, stopCalls,
                 kubernetesContext, kctx, ctxChanges, ctxCancelled, tickerOn,
                 tickBuffered, nextFire, loopPc, toMonitor, statusChan,
                 chanClosed, restartTasks, globalRestart, invoked,
                 incremented, streak, spawnedAfterStop>>

\* The program from main's call of Manager.Start on, two services configured:
\* start-up, main's reaction to what Start returns, and the monitoring loop.
NextMain ==
  \/ \E readOk \in BOOLEAN : ManagerStartBegin(readOk)
  \/ \E s \in Names, spawnOk \in BOOLEAN : ManagerStartService(Wide, s, spawnOk)
  \/ ManagerStartMonitoring
  \/ MainExit
  \/ LoopTick
  \/ \E s \in Names : MonitorService(Wide, s)
  \/ MonitorPublish
  \/ \E readOk \in BOOLEAN : CheckContext(readOk)
  \/ \E s \in Names, obeys \in BOOLEAN : RestartStop(Wide, s, obeys)
  \/ \E s \in Names : RestartIncr(s)
  \/ \E s \in Names, spawnOk \in BOOLEAN : RestartStart(Wide, s, spawnOk)
  \/ \E pid \in 1..Len(children) : ChildBind(pid)
  \/ \E pid \in 1..Len(children) : ChildExit(pid)
  \/ AdvanceClock(Wide)

SpecMain == InitTwo /\ [][NextMain]_vars

\* checkKubernetesContext runs kubectl and waits for its output, without a
\* timeout: a kubectl that never exits keeps the monitoring goroutine there.
ContextReadHangs ==
  /\ loopPc = "checkctx" /\ ~panicked
  /\ loopPc' = "hung"
  /\ UNCHANGED <<resolveVars, uiVars, probeVars, built, lastReceived,
                 startErrors, tickStart, calls, rlocked, config, external,
                 now, sm, children, mgr, mgrLock, toStart, toStop, stopCalls,
                 kubernetesContext, kctx, ctxChanges, ctxCancelled, tickerOn,
                 tickBuffered, nextFire, toMonitor, statusChan, chanClosed,
                 panicked, restartTasks, globalRestart, invoked, incremented,
                 streak, spawnedAfterStop>>

\* The steps of the monitoring goroutine that return.
LoopSteps ==
  \/ LoopTick
  \/ \E s \in Names : MonitorService(Long, s)
  \/ MonitorPublish
  \/ \E readOk \in BOOLEAN : CheckContext(readOk)

\* One service whose kubectl commands may hang.  The scheduler runs the
\* monitoring goroutine whenever it can take a step.
NextStuck ==
  \/ NextProbe
  \/ ContextReadHangs

SpecStuck == InitOne /\ [][NextStuck]_vars /\ WF_vars(LoopSteps)

\* One service with its observer: tick-dispatched restarts only, and the
\* receiver of the status channel.
NextObserve ==
  \/ NextProbe
  \/ ReceiveStatus

SpecObserve == InitOne /\ [][NextObserve]_vars

\* ------------------------------------- a client of one ServiceManager
\* A client calls Start, Stop and Restart on the ServiceManager of a service,
\* one call after the other; the children and the clock go their own way.
CallStart(s, spawnOk) ==
  /\ Len(calls) < MaxCalls
  /\ calls' = Append(calls, "Start")
  /\ DoStart(s, spawnOk)
  /\ UNCHANGED <<resolveVars, uiVars, probeVars, built, lastReceived, startErrors, tickStart, rlocked, config, external, now, mgr, mgrLock, toStart,
                 toStop, stopCalls, kubernetesContext, kctx, ctxChanges,
                 ctxCancelled, tickerOn, tickBuffered, nextFire, loopPc,
                 toMonitor, statusChan, chanClosed, panicked, restartTasks,
                 globalRestart, invoked, incremented>>

CallStop(s, obeys) ==
  /\ Len(calls) < MaxCalls
  /\ calls' = Append(calls, "Stop")
  /\ DoStop(s, obeys)
  /\ UNCHANGED <<resolveVars, uiVars, probeVars, built, lastReceived, startErrors, tickStart, rlocked, config, external, now, mgr, mgrLock, toStart,
                 toStop, stopCalls, kubernetesContext, kctx, ctxChanges,
                 ctxCancelled, tickerOn, tickBuffered, nextFire, loopPc,
                 toMonitor, statusChan, chanClosed, panicked, restartTasks,
                 globalRestart, invoked, incremented, streak,
                 spawnedAfterStop>>

CallRestart(s, spawnOk, obeys) ==
  LET res == Restart(s, sm[s], config[s], now, children, external, spawnOk,
                     obeys)
  IN /\ Len(calls) < MaxCalls
     /\ s \notin rlocked
     /\ calls' = Append(calls, "Restart")
     /\ sm' = [sm EXCEPT ![s] = res.sm]
     /\ children' = Reap(res.children, [sm EXCEPT ![s] = res.sm])
     /\ streak' = [streak EXCEPT ![s] = IF res.err = "spawn" THEN @ + 1 ELSE @]
     /\ invoked' = [invoked EXCEPT ![s] = @ + 1]
     /\ incremented' = [incremented EXCEPT ![s] = @ + 1]
     /\ UNCHANGED <<resolveVars, uiVars, probeVars, built, lastReceived, startErrors, tickStart, rlocked, config, external, now, mgr, mgrLock, toStart,
                    toStop, stopCalls, kubernetesContext, kctx, ctxChanges,
                    ctxCancelled, tickerOn, tickBuffered, nextFire, loopPc,
                    toMonitor, statusChan, chanClosed, panicked, restartTasks,
                    globalRestart, spawnedAfterStop>>

NextLifecycle ==
  \/ \E s \in Names, spawnOk \in BOOLEAN : CallStart(s, spawnOk)
  \/ \E s \in Names, obeys \in BOOLEAN : CallStop(s, obeys)
  \/ \E s \in Names, spawnOk \in BOOLEAN, obeys \in BOOLEAN :
       CallRestart(s, spawnOk, obeys)
  \/ \E pid \in 1..Len(children) : ChildBind(pid)
  \/ \E pid \in 1..Len(children) : ChildExit(pid)
  \/ AdvanceClock(Wide)

SpecLifecycle == InitOne /\ [][NextLifecycle]_vars

\* ------------------------------------------------- ResolvePortConflicts
managerVars == <<calls, rlocked, tickStart, built, lastReceived, startErrors, config, now, sm, children, mgr, mgrLock, toStart, toStop,
                 stopCalls, kubernetesContext, kctx, ctxChanges, ctxCancelled,
                 tickerOn, tickBuffered, nextFire, loopPc, toMonitor,
                 statusChan, chanClosed, panicked, restartTasks,
                 globalRestart, invoked, incremented, streak,
                 spawnedAfterStop>>

\* The service maps handed to ResolvePortConflicts.
ResolveNames == {<<"p", "q", "r", "s", "t">>[i] : i \in 1..MaxServices}
ServiceMaps == UNION {[D -> Ports] : D \in SUBSET ResolveNames}

\* A call of ResolvePortConflicts on some map, with some ports taken; no
\* child of ours runs.
InitResolve ==
  /\ config = [a \in {"a"} |-> 1]
  /\ external \in SUBSET Ports
  /\ InitManager
  /\ InitNoHelpers
  /\ InitNoProbe
  /\ services \in ServiceMaps
  /\ portAssignments = Unassigned
  /\ usedPorts = {}
  /\ resolvePc = "first"
  /\ pending = DOMAIN services
  /\ portCache = Unassigned
  /\ previous = <<>>

Assign(name, port) ==
  [n \in DOMAIN portAssignments \cup {name} |->
     IF n = name THEN port ELSE portAssignments[n]]

\* One iteration of the first loop, in the order the map's range yields.
ResolveFirstPass(name) ==
  /\ resolvePc = "first" /\ name \in pending
  /\ pending' = pending \ {name}
  /\ IF IsPortAvailable(services[name], children, external)
        /\ services[name] \notin usedPorts
     THEN /\ portAssignments' = Assign(name, services[name])
          /\ usedPorts' = usedPorts \cup {services[name]}
     ELSE UNCHANGED <<portAssignments, usedPorts>>
  /\ UNCHANGED <<managerVars, uiVars, probeVars, portCache, previous, external, services, resolvePc>>

\* The first loop is over, the second begins.
ResolveNextPass ==
  /\ resolvePc = "first" /\ pending = {}
  /\ resolvePc' = "second"
  /\ pending' = DOMAIN services
  /\ UNCHANGED <<managerVars, uiVars, probeVars, portCache, previous, external, services, portAssignments, usedPorts>>

\* One iteration of the second loop: an entry without a port gets what
\* FindAvailablePort returns; its error ends the call.
ResolveSecondPass(name) ==
  /\ resolvePc = "second" /\ name \in pending
  /\ IF name \in DOMAIN portAssignments
     THEN /\ pending' = pending \ {name}
          /\ UNCHANGED <<portAssignments, usedPorts, resolvePc>>
     ELSE LET newPort == FindAvailablePort(services[name], children, external)
          IN IF newPort = 0
             THEN /\ resolvePc' = "error"
                  /\ portAssignments' = Unassigned
                  /\ pending' = {}
                  /\ UNCHANGED usedPorts
             ELSE /\ portAssignments' = Assign(name, newPort)
                  /\ usedPorts' = usedPorts \cup {newPort}
                  /\ pending' = pending \ {name}
                  /\ UNCHANGED resolvePc
  /\ UNCHANGED <<managerVars, uiVars, probeVars, portCache, previous, external, services>>

\* return portAssignments, nil
ResolveReturn ==
  /\ resolvePc = "second" /\ pending = {}
  /\ resolvePc' = "done"
  /\ UNCHANGED <<managerVars, uiVars, probeVars, portCache, previous, external, services, portAssignments, usedPorts,
                 pending>>

NextResolve ==
  \/ \E name \in ResolveNames : ResolveFirstPass(name)
  \/ ResolveNextPass
  \/ \E name \in ResolveNames : ResolveSecondPass(name)
  \/ ResolveReturn

SpecResolve == InitResolve /\ [][NextResolve]_vars

\* ----------------------------------------- ResolvePortConflictsOptimized
\* What the PortChecker answers for a port: the cached answer while the cache
\* holds one, else what IsPortAvailable finds now.
Reports(port, cache, ch, ext) ==
  IF port \in DOMAIN cache THEN cache[port] ELSE IsPortAvailable(port, ch, ext)

\* IsPortAvailableOptimized: the answer, which the cache holds afterwards.
Cached(port, cache, ch, ext) ==
  [q \in DOMAIN cache \cup {port} |->
     IF q = port THEN Reports(port, cache, ch, ext) ELSE cache[q]]

\* A search that does not look at the ports reserved in this call: what
\* findNextAvailablePortOptimized must not be.
RECURSIVE findNextIgnoringReserved(_, _, _, _, _)
findNextIgnoringReserved(startPort, used, cache, ch, ext) ==
  IF startPort > MaxPort THEN [port |-> 0, cache |-> cache]
  ELSE IF Reports(startPort, cache, ch, ext)
  THEN [port |-> startPort, cache |-> Cached(startPort, cache, ch, ext)]
  ELSE findNextIgnoringReserved(startPort + 1, used,
                                Cached(startPort, cache, ch, ext), ch, ext)

\* findNextAvailablePortOptimized: the ports from startPort up to 65535 in
\* rising order (the first hundred, then the rest), skipping the reserved
\* ones and asking the checker about the others; 0 when none is left.
RECURSIVE findNextAvailablePortOptimized(_, _, _, _, _)
findNextAvailablePortOptimized(startPort, used, cache, ch, ext) ==
  IF startPort > MaxPort THEN [port |-> 0, cache |-> cache]
  ELSE IF startPort \in used
  THEN findNextAvailablePortOptimized(startPort + 1, used, cache, ch, ext)
  ELSE IF Reports(startPort, cache, ch, ext)
  THEN [port |-> startPort, cache |-> Cached(startPort, cache, ch, ext)]
  ELSE findNextAvailablePortOptimized(startPort + 1, used,
                                      Cached(startPort, cache, ch, ext), ch, ext)

\* What a PortChecker may remember from an earlier call: nothing, or the
\* answer found then for one port.
PortCaches ==
  {Unassigned} \cup {[q \in {p} |-> b] : p \in Ports, b \in BOOLEAN}

\* A call of ResolvePortConflictsOptimized on some map, with some ports
\* taken and some answers cached.
InitOptimized ==
  /\ config = [a \in {"a"} |-> 1]
  /\ external \in SUBSET Ports
  /\ InitManager
  /\ InitNoHelpers
  /\ InitNoProbe
  /\ services \in ServiceMaps
  /\ portAssignments = Unassigned
  /\ usedPorts = {}
  /\ resolvePc = "first"
  /\ pending = DOMAIN services
  /\ portCache \in PortCaches
  /\ previous = <<>>

\* One iteration of the first loop.
OptimizedFirstPass(name) ==
  /\ resolvePc = "first" /\ name \in pending
  /\ pending' = pending \ {name}
  /\ portCache' = Cached(services[name], portCache, children, external)
  /\ IF Reports(services[name], portCache, children, external)
        /\ services[name] \notin usedPorts
     THEN /\ portAssignments' = Assign(name, services[name])
          /\ usedPorts' = usedPorts \cup {services[name]}
     ELSE UNCHANGED <<portAssignments, usedPorts>>
  /\ UNCHANGED <<managerVars, uiVars, probeVars, previous, external, services,
                 resolvePc>>

\* The first loop is over, the second begins.
OptimizedNextPass ==
  /\ resolvePc = "first" /\ pending = {}
  /\ resolvePc' = "second"
  /\ pending' = DOMAIN services
  /\ UNCHANGED <<managerVars, uiVars, probeVars, portCache, previous, external,
                 services, portAssignments, usedPorts>>

\* One iteration of the second loop: an entry without a port gets what
\* findNextAvailablePortOptimized returns; 0 ends the call with an error and
\* a nil map.
OptimizedSecondPass(name) ==
  /\ resolvePc = "second" /\ name \in pending
  /\ IF name \in DOMAIN portAssignments
     THEN /\ pending' = pending \ {name}
          /\ UNCHANGED <<portAssignments, usedPorts, resolvePc, portCache>>
     ELSE LET next == findNextAvailablePortOptimized(
                         services[name], usedPorts, portCache, children,
                         external)
          IN /\ portCache' = next.cache
             /\ IF next.port = 0
                THEN /\ resolvePc' = "error"
                     /\ portAssignments' = Unassigned
                     /\ pending' = {}
                     /\ UNCHANGED usedPorts
                ELSE /\ portAssignments' = Assign(name, next.port)
                     /\ usedPorts' = usedPorts \cup {next.port}
                     /\ pending' = pending \ {name}
                     /\ UNCHANGED resolvePc
  /\ UNCHANGED <<managerVars, uiVars, probeVars, previous, external, services>>

\* return finalResult, nil
OptimizedReturn ==
  /\ resolvePc = "second" /\ pending = {}
  /\ resolvePc' = "done"
  /\ UNCHANGED <<managerVars, uiVars, probeVars, portCache, previous, external,
                 services, portAssignments, usedPorts, pending>>

NextOptimized ==
  \/ \E name \in ResolveNames : OptimizedFirstPass(name)
  \/ OptimizedNextPass
  \/ \E name \in ResolveNames : OptimizedSecondPass(name)
  \/ OptimizedReturn

SpecOptimized == InitOptimized /\ [][NextOptimized]_vars

\* The caller calls ResolvePortConflictsOptimized once more, on the same map
\* and with the same ports taken; what the call before returned is kept for
\* comparison. The checker keeps the answers it has found.
ResolveAgain ==
  /\ resolvePc \in {"done", "error"}
  /\ Len(previous) < MaxReruns
  /\ previous' = Append(previous, portAssignments)
  /\ portAssignments' = Unassigned
  /\ usedPorts' = {}
  /\ resolvePc' = "first"
  /\ pending' = DOMAIN services
  /\ UNCHANGED <<managerVars, uiVars, probeVars, portCache, external, services>>

NextOptimizedTwice ==
  \/ NextOptimized
  \/ ResolveAgain

\* Repeated calls on a resolver whose checker starts with an empty cache.
SpecOptimizedTwice == InitResolve /\ [][NextOptimizedTwice]_vars

\* ---------------------------------------------------------- GRPCUIManager
\* The service types of the configuration.
ServiceTypes == {"rpc", "rest", "web"}

\* The status values a snapshot carries, as far as the manager tells them
\* apart.
SnapshotStatuses == {"Running", "Failed"}

\* FindAvailablePort(9090): the lowest port of the modelled range stands for
\* the port the search for a grpcui port starts at.
GrpcuiBasePort == 1

\* No MonitorServices call has looked at a status map yet.
NoSnapshot == [s \in Services |-> ""]

NoGmCall == [seq |-> 0, op |-> "none", name |-> "", type |-> "", status |-> "",
             enabled |-> FALSE, err |-> ""]

\* A StartService that adopts a Running service of any type: what the checks
\* before the lock must not be.
StartServiceAnyType(enabled, type, status) == enabled /\ status = "Running"

\* StartService before it takes the lock: it goes on only for an enabled
\* manager and an rpc service that is Running, and returns nil otherwise.
StartServiceChecks(enabled, type, status) ==
  enabled /\ type = "rpc" /\ status = "Running"

\* StartService under the lock: nothing for an entry that is Running, else a
\* port from FindAvailablePort, a grpcui process and a new entry.
StartServiceLocked(name, localPort, gs, procs, ext, spawnOk) ==
  LET grpcuiPort == FindAvailablePort(GrpcuiBasePort, procs, ext)
      pid == Len(procs) + 1
      entry == [localPort |-> localPort, grpcuiPort |-> grpcuiPort,
                cmd |-> pid, status |-> "Running"]
  IN IF name \in DOMAIN gs /\ gs[name].status = "Running"
     THEN [services |-> gs, procs |-> procs, err |-> ""]
     ELSE IF grpcuiPort = 0
     THEN [services |-> gs, procs |-> procs,
           err |-> "failed to find available port for gRPC UI"]
     ELSE IF ~spawnOk
     THEN [services |-> gs, procs |-> procs,
           err |-> "failed to start grpcui process"]
     ELSE [services |-> [n \in DOMAIN gs \cup {name} |->
                           IF n = name THEN entry ELSE gs[n]],
           procs |-> Append(procs, [svc |-> name, port |-> grpcuiPort,
                                    st |-> "unbound"]),
           err |-> ""]

\* stopService: KillProcess on the helper's pid, and the entry is deleted.
stopService(name, gs, procs, obeys) ==
  IF name \notin DOMAIN gs
  THEN [services |-> gs, procs |-> procs]
  ELSE [services |-> [n \in DOMAIN gs \ {name} |-> gs[n]],
        procs |-> KillProcess(gs[name].cmd, procs, obeys)]

\* The goroutines MonitorServices dispatches for a status map: StartService
\* for every rpc service that is Running and has no entry, StopService for
\* every entry whose service is not Running.
StartsFor(snap, gs) ==
  {n \in Services : svcType[n] = "rpc" /\ snap[n] = "Running"
                    /\ n \notin DOMAIN gs}
StopsFor(snap, gs) == {n \in DOMAIN gs : snap[n] # "Running"}

StartTask(n, status) == [op |-> "start", pc |-> "check", name |-> n,
                         status |-> status, enabled |-> FALSE]
StopTask(n) == [op |-> "stop", pc |-> "lock", name |-> n, status |-> "",
                enabled |-> FALSE]

\* The tasks of a set of services.  The order the map is ranged over does
\* not matter: the goroutines run in any order.
RECURSIVE TasksOf(_, _, _)
TasksOf(names, snap, op) ==
  IF names = {} THEN <<>>
  ELSE LET n == CHOOSE x \in names : TRUE
       IN <<IF op = "start" THEN StartTask(n, snap[n]) ELSE StopTask(n)>>
          \o TasksOf(names \ {n}, snap, op)

Remove(seq, i) == SubSeq(seq, 1, i - 1) \o SubSeq(seq, i + 1, Len(seq))

\* StartService calls that have begun: those that returned and those under
\* way.
StartsBegun ==
  gmCall.seq + Cardinality({i \in 1..Len(gmTasks) : gmTasks[i].op = "start"})

\* Enable: grpcui is looked up in PATH, and the manager is enabled if it is
\* there.
GmEnable(available) ==
  /\ ~gmEnabled
  /\ available
  /\ gmEnabled' = TRUE
  /\ UNCHANGED <<managerVars, resolveVars, probeVars, external, svcType,
                 gmServices, gmTasks, helperProcs, gmSnapshot, gmCall,
                 reconciles>>

\* Disable: under the lock, stopService for every entry; then enabled is
\* cleared.
RECURSIVE StopAll(_, _, _)
StopAll(gs, procs, obeys) ==
  IF DOMAIN gs = {} THEN [services |-> gs, procs |-> procs]
  ELSE LET n == CHOOSE x \in DOMAIN gs : TRUE
           r == stopService(n, gs, procs, obeys)
       IN StopAll(r.services, r.procs, obeys)

GmDisable(obeys) ==
  LET r == StopAll(gmServices, helperProcs, obeys) IN
  /\ gmEnabled
  /\ gmEnabled' = FALSE
  /\ gmServices' = r.services
  /\ helperProcs' = r.procs
  /\ UNCHANGED <<managerVars, resolveVars, probeVars, external, svcType,
                 gmTasks, gmSnapshot, gmCall, reconciles>>

\* MonitorServices(services, configs): nothing on a disabled manager; else,
\* under the lock, the goroutines are dispatched.
MonitorServices(snap) ==
  /\ reconciles < MaxReconciles
  /\ reconciles' = reconciles + 1
  /\ gmSnapshot' = IF gmEnabled THEN snap ELSE gmSnapshot
  /\ gmTasks' = IF ~gmEnabled THEN gmTasks
                ELSE gmTasks \o TasksOf(StartsFor(snap, gmServices), snap, "start")
                            \o TasksOf(StopsFor(snap, gmServices), snap, "stop")
  /\ UNCHANGED <<managerVars, resolveVars, probeVars, external, svcType,
                 gmEnabled, gmServices, helperProcs, gmCall>>

\* A client calls StartService itself, with the configuration of the
\* service and a status of its choice.
CallStartService(name, status) ==
  /\ StartsBegun < MaxHelperCalls
  /\ gmTasks' = Append(gmTasks, StartTask(name, status))
  /\ UNCHANGED <<managerVars, resolveVars, probeVars, external, svcType,
                 gmEnabled, gmServices, helperProcs, gmSnapshot, gmCall,
                 reconciles>>

\* A StartService reads enabled and looks at type and status.  It returns
\* nil when they do not ask for a helper, and goes for the lock otherwise.
StartServiceCheck(i) ==
  LET task == gmTasks[i]
      goesOn == StartServiceChecks(gmEnabled, svcType[task.name], task.status)
  IN
  /\ i \in 1..Len(gmTasks)
  /\ task.op = "start" /\ task.pc = "check"
  /\ IF goesOn
     THEN /\ gmTasks' = [gmTasks EXCEPT ![i].pc = "lock", ![i].enabled = TRUE]
          /\ UNCHANGED gmCall
     ELSE /\ gmTasks' = Remove(gmTasks, i)
          /\ gmCall' = [seq |-> gmCall.seq + 1, op |-> "StartService",
                        name |-> task.name, type |-> svcType[task.name],
                        status |-> task.status, enabled |-> gmEnabled,
                        err |-> ""]
  /\ UNCHANGED <<managerVars, resolveVars, probeVars, external, svcType,
                 gmEnabled, gmServices, helperProcs, gmSnapshot, reconciles>>

\* The StartService has the lock: the rest of it, to its return.
StartServiceRun(i, spawnOk) ==
  LET task == gmTasks[i]
      r == StartServiceLocked(task.name, config[task.name], gmServices,
                              helperProcs, external, spawnOk)
  IN
  /\ i \in 1..Len(gmTasks)
  /\ task.op = "start" /\ task.pc = "lock"
  /\ gmTasks' = Remove(gmTasks, i)
  /\ gmServices' = r.services
  /\ helperProcs' = r.procs
  /\ gmCall' = [seq |-> gmCall.seq + 1, op |-> "StartService",
                name |-> task.name, type |-> svcType[task.name],
                status |-> task.status, enabled |-> task.enabled,
                err |-> r.err]
  /\ UNCHANGED <<managerVars, resolveVars, probeVars, external, svcType,
                 gmEnabled, gmSnapshot, reconciles>>

\* A dispatched StopService: the lock, and stopService.
StopServiceRun(i, obeys) ==
  LET task == gmTasks[i]
      r == stopService(task.name, gmServices, helperProcs, obeys)
  IN
  /\ i \in 1..Len(gmTasks)
  /\ task.op = "stop"
  /\ gmTasks' = Remove(gmTasks, i)
  /\ gmServices' = r.services
  /\ helperProcs' = r.procs
  /\ UNCHANGED <<managerVars, resolveVars, probeVars, external, svcType,
                 gmEnabled, gmSnapshot, gmCall, reconciles>>

\* A client calls StopService for a service that has an entry.
CallStopService(name, obeys) ==
  LET r == stopService(name, gmServices, helperProcs, obeys) IN
  /\ name \in DOMAIN gmServices
  /\ gmServices' = r.services
  /\ helperProcs' = r.procs
  /\ UNCHANGED <<managerVars, resolveVars, probeVars, external, svcType,
                 gmEnabled, gmTasks, gmSnapshot, gmCall, reconciles>>

\* GetServiceInfo: the entry, marked Failed when IsProcessRunning denies its
\* process.  Signal 0 still reaches a helper that has exited, for nobody
\* waits for it; the tasklist query of the Windows build does not find it.
GetServiceInfo(name, tasklist) ==
  /\ name \in DOMAIN gmServices
  /\ ~IF tasklist THEN Alive(helperProcs[gmServices[name].cmd])
      ELSE IsProcessRunning(gmServices[name].cmd, helperProcs)
  /\ gmServices[name].status # "Failed"
  /\ gmServices' = [gmServices EXCEPT ![name].status = "Failed"]
  /\ UNCHANGED <<managerVars, resolveVars, probeVars, external, svcType,
                 gmEnabled, gmTasks, helperProcs, gmSnapshot, gmCall,
                 reconciles>>

\* A grpcui process binds its port, or finds it taken and exits.
HelperBind(pid) ==
  /\ pid \in 1..Len(helperProcs) /\ helperProcs[pid].st = "unbound"
  /\ helperProcs' = [helperProcs EXCEPT ![pid].st =
                       IF IsPortAvailable(helperProcs[pid].port, helperProcs,
                                          external)
                       THEN "bound" ELSE "dead"]
  /\ UNCHANGED <<managerVars, resolveVars, probeVars, external, svcType,
                 gmEnabled, gmServices, gmTasks, gmSnapshot, gmCall,
                 reconciles>>

\* A grpcui process exits.
HelperExit(pid) ==
  /\ pid \in 1..Len(helperProcs) /\ Alive(helperProcs[pid])
  /\ helperProcs' = [helperProcs EXCEPT ![pid].st = "dead"]
  /\ UNCHANGED <<managerVars, resolveVars, probeVars, external, svcType,
                 gmEnabled, gmServices, gmTasks, gmSnapshot, gmCall,
                 reconciles>>

\* A new manager, not enabled, for a configuration of two services.
InitHelpers ==
  /\ config = [s \in Services |-> IF s = "a" THEN 1 ELSE 2]
  /\ external \in Externals
  /\ InitManager
  /\ InitNoProbe
  /\ services = Unassigned
  /\ portAssignments = Unassigned
  /\ usedPorts = {}
  /\ resolvePc = "none"
  /\ pending = {}
  /\ portCache = Unassigned
  /\ previous = <<>>
  /\ svcType \in [Services -> ServiceTypes]
  /\ gmEnabled = FALSE
  /\ gmServices = Unassigned
  /\ gmTasks = <<>>
  /\ helperProcs = <<>>
  /\ gmSnapshot = NoSnapshot
  /\ gmCall = NoGmCall
  /\ reconciles = 0

\* The manager as the monitoring loop drives it: MonitorServices on every
\* tick, and the goroutines it dispatches.
NextReconcile ==
  \/ \E available \in BOOLEAN : GmEnable(available)
  \/ \E snap \in [Services -> SnapshotStatuses] : MonitorServices(snap)
  \/ \E i \in 1..Len(gmTasks) : StartServiceCheck(i)
  \/ \E i \in 1..Len(gmTasks), spawnOk \in BOOLEAN : StartServiceRun(i, spawnOk)
  \/ \E i \in 1..Len(gmTasks), obeys \in BOOLEAN : StopServiceRun(i, obeys)
  \/ \E pid \in 1..Len(helperProcs) : HelperBind(pid)
  \/ \E pid \in 1..Len(helperProcs) : HelperExit(pid)

SpecReconcile == InitHelpers /\ [][NextReconcile]_vars

\* The manager with clients that call it themselves, and its shutdown.
NextHelpers ==
  \/ \E available \in BOOLEAN : GmEnable(available)
  \/ \E i \in 1..Len(gmTasks) : StartServiceCheck(i)
  \/ \E i \in 1..Len(gmTasks), spawnOk \in BOOLEAN : StartServiceRun(i, spawnOk)
  \/ \E pid \in 1..Len(helperProcs) : HelperBind(pid)
  \/ \E pid \in 1..Len(helperProcs) : HelperExit(pid)
  \/ \E name \in Services, status \in SnapshotStatuses :
       CallStartService(name, status)
  \/ \E name \in Services, obeys \in BOOLEAN : CallStopService(name, obeys)
  \/ \E name \in Services, tasklist \in BOOLEAN : GetServiceInfo(name, tasklist)
  \/ \E obeys \in BOOLEAN : GmDisable(obeys)

SpecHelpers == InitHelpers /\ [][NextHelpers]_vars

\* ------------------------------------------------------ the backoff ladder
\* A client calls Start while kubectl cannot be started.
StartUnspawnable(s) ==
  /\ DoStart(s, FALSE)
  /\ UNCHANGED <<resolveVars, uiVars, probeVars, built, lastReceived,
                 startErrors, tickStart, calls, rlocked, config, external,
                 now, mgr, mgrLock, toStart, toStop, stopCalls,
                 kubernetesContext, kctx, ctxChanges, ctxCancelled, tickerOn,
                 tickBuffered, nextFire, loopPc, toMonitor, statusChan,
                 chanClosed, panicked, restartTasks, globalRestart, invoked,
                 incremented>>

Backoff == [time |-> BackoffTime, restarts |-> 0, failures |-> 0,
            stubborn |-> FALSE]

\* One service that fails to start again and again, as time goes by.
NextBackoff ==
  \/ \E s \in Names : StartUnspawnable(s)
  \/ AdvanceClock(Backoff)

SpecBackoff == InitOne /\ [][NextBackoff]_vars

\* -------------------------------------------------- FindAvailablePort alone
\* A client calls FindAvailablePort(startPort), with a start port in the
\* valid range or just above it.
CallFindAvailablePort(startPort) ==
  /\ probes < MaxProbes
  /\ probes' = probes + 1
  /\ probeFrom' = startPort
  /\ found' = FindAvailablePort(startPort, children, external)
  /\ UNCHANGED <<managerVars, resolveVars, uiVars, external>>

\* Some process starts to listen on a port that was free.
PortTaken(port) ==
  /\ port \in Ports \ external
  /\ external' = external \cup {port}
  /\ UNCHANGED <<managerVars, resolveVars, uiVars, probeVars>>

\* A listener closes its port.
PortReleased(port) ==
  /\ port \in external
  /\ external' = external \ {port}
  /\ UNCHANGED <<managerVars, resolveVars, uiVars, probeVars>>

InitPorts ==
  /\ config = [a \in {"a"} |-> 1]
  /\ external \in SUBSET Ports
  /\ InitManager
  /\ InitNoHelpers
  /\ InitNoProbe
  /\ services = Unassigned
  /\ portAssignments = Unassigned
  /\ usedPorts = {}
  /\ resolvePc = "none"
  /\ pending = {}
  /\ portCache = Unassigned
  /\ previous = <<>>

NextPorts ==
  \/ \E startPort \in 1..MaxPort + 1 : CallFindAvailablePort(startPort)
  \/ \E port \in Ports : PortTaken(port)
  \/ \E port \in Ports : PortReleased(port)

SpecPorts == InitPorts /\ [][NextPorts]_vars

\* ----------------------------------------------------------------- claims
\* The child a ServiceManager holds is alive.
HasLiveChild(s) ==
  sm[s].cmd # 0 /\ sm[s].cmd <= Len(children) /\ Alive(children[sm[s].cmd])

\* This step spawns a child for s: Start stored a new process handle.
Spawns(s) == sm'[s].cmd # 0 /\ sm'[s].cmd # sm[s].cmd

\* Restart invocations of s that have not reached their increment yet.
BeforeIncrement(s) ==
  restartTasks[s]["stop"] + restartTasks[s]["incr"] +
  Cardinality({i \in 1..Len(globalRestart) :
                 globalRestart[i].pc = "incr" /\ globalRestart[i].cur = s})

\* No Restart is in flight.
Quiet == restartTasks = NoTasks /\ globalRestart = <<>>

\* C1: in every reachable state, at most one child spawned for a service is
\* alive.
C1_AtMostOneLiveChild ==
  \A s \in Names : Cardinality(LiveChildren(s)) <= 1

\* C2: once Manager.Stop has returned, the status channel is closed, no child
\* is alive, none was spawned since, and every service reports Stopped.
C2_NothingSurvivesStop ==
  (mgr = "stopped" /\ ~panicked) =>
    /\ chanClosed
    /\ ~spawnedAfterStop
    /\ \A s \in Names : LiveChildren(s) = {} /\ sm[s].Status = "Stopped"

\* C3: a second call of Manager.Stop, after a first one has returned, returns
\* normally: it does not panic.
C3_SecondStopReturns == stopCalls >= 2 => ~panicked

\* C4: no two services that both hold a live child have the same effective
\* local port.
C4_DistinctEffectivePorts ==
  \A s, u \in Names :
    (s # u /\ HasLiveChild(s) /\ HasLiveChild(u)) =>
      sm[s].LocalPort # sm[u].LocalPort

\* C5: a successful result of ResolvePortConflicts assigns a port to every
\* service of the map, and no port to two of them.
C5_ResolvedPortsDistinct ==
  resolvePc = "done" =>
    /\ DOMAIN portAssignments = DOMAIN services
    /\ \A n, m \in DOMAIN services :
         n # m => portAssignments[n] # portAssignments[m]

\* C6: no step spawns a child for a service before the service's
\* cooldownUntil, and a cooldownUntil once set is never moved back, so no
\* spawn happens before any time it was ever set to.
C6_NoSpawnBeforeCooldownEnds ==
  [][\A s \in Names :
       /\ Spawns(s) => now >= sm[s].cooldownUntil
       /\ sm'[s].cooldownUntil >= sm[s].cooldownUntil]_vars

\* C6, witness: a Start was refused because the cooldown has not ended.
C6_StartRefused ==
  \E s \in Names : sm[s].Status = "Cooldown" /\ now < sm[s].cooldownUntil

\* C7: a service whose every spawn succeeded and whose last three probes
\* failed in a row has had a cooldown set.
C7_ThreeFailuresSetCooldown ==
  \A s \in Names :
    (streak[s] >= CooldownThreshold /\ sm[s].failureCount = 0) =>
      sm[s].cooldownUntil # 0

\* C8: when the tick loop examines a service that is in phase Cooldown and
\* whose cooldownUntil has passed, it dispatches a restart for it.
C8_ExpiredCooldownIsRestarted ==
  [][\A s \in Names :
       (/\ s \in toMonitor /\ s \notin toMonitor'
        /\ sm[s].Status = "Cooldown"
        /\ now >= sm[s].cooldownUntil)
       => invoked'[s] = invoked[s] + 1]_vars

\* C9: while cooldownUntil lies in the future, the snapshot GetStatus returns
\* shows phase Cooldown and InCooldown true.
C9_SnapshotShowsCooldown ==
  \A s \in Names :
    now < sm[s].cooldownUntil =>
      LET status == GetStatus(sm[s], children, external)
      IN status.Status = "Cooldown" /\ status.InCooldown

\* C10: RestartCount never decreases and changes only in the increment step
\* of a Restart, by exactly 1; every Restart invocation contributes exactly
\* one increment, whatever its Start does.
C10_RestartCountCountsRestarts ==
  /\ [](\A s \in Names : sm[s].RestartCount + BeforeIncrement(s) = invoked[s])
  /\ [][\A s \in Names :
          /\ sm'[s].RestartCount >= sm[s].RestartCount
          /\ sm'[s].RestartCount # sm[s].RestartCount =>
               /\ sm'[s].RestartCount = sm[s].RestartCount + 1
               /\ incremented'[s] = incremented[s] + 1]_vars

\* C10, witness: a Restart has completed whose Start was refused by the
\* cooldown, after earlier ones whose Start failed.
C10_RestartedIntoCooldown ==
  \E s \in Names : sm[s].RestartCount = 3 /\ sm[s].Status = "Cooldown" /\ Quiet

\* C11: a service in phase Running has a process id recorded, holds the
\* child's handle, and has its StartTime set.
C11_RunningHasProcess ==
  \A s \in Names :
    sm[s].Status = "Running" =>
      sm[s].PID # 0 /\ sm[s].cmd # 0 /\ sm[s].StartTime # 0

\* C11, witness: a service is Running again after a Restart stopped it.
C11_RunningAfterRestart ==
  \E s \in Names :
    sm[s].Status = "Running" /\ sm[s].RestartCount >= 1 /\ sm[s].PID # 0

\* What a caller can observe of a service: phase, effective port, PID, and
\* the children spawned for it that are alive.
Observable(r, ch, s) ==
  <<r.Status, r.LocalPort, r.PID,
    {i \in 1..Len(ch) : ch[i].svc = s /\ Alive(ch[i])}>>

\* The step is the client's call of op.
Calls(op) == Len(calls') = Len(calls) + 1 /\ calls'[Len(calls')] = op

LastCall == IF calls = <<>> THEN "" ELSE calls[Len(calls)]

\* C12: a Start called on a service that is Running with its child alive
\* changes nothing a caller can observe: it spawns no second child.
C12_StartOnRunningChangesNothing ==
  [][\A s \in Names :
       (Calls("Start") /\ sm[s].Status = "Running" /\ HasLiveChild(s)) =>
         Observable(sm'[s], children', s) = Observable(sm[s], children, s)]_vars

\* C13: every Stop ends in phase Stopped with the PID and the handle cleared,
\* and a Stop that follows a Stop changes neither the service nor any
\* process.
C13_StopIdempotent ==
  [][\A s \in Names :
       Calls("Stop") =>
         /\ sm'[s].Status = "Stopped" /\ sm'[s].PID = 0 /\ sm'[s].cmd = 0
         /\ LastCall = "Stop" => sm'[s] = sm[s] /\ children' = children]_vars

\* C13, witness: a started service was stopped twice in a row.
C13_StoppedTwice ==
  /\ Len(calls) >= 3
  /\ SubSeq(calls, Len(calls) - 2, Len(calls)) = <<"Start", "Stop", "Stop">>
  /\ \A s \in Names : sm[s].Status = "Stopped"

\* C14: a Restart leaves what Stop followed by Start leaves from the same
\* state, with the same answers of the environment, except that RestartCount
\* is larger by one.
C14_RestartIsStopThenStart ==
  [][\A s \in Names :
       Calls("Restart") =>
         \E spawnOk \in BOOLEAN, obeys \in BOOLEAN :
           LET stopped == Stop(sm[s], children, obeys)
               started == Start(s, stopped.sm, config[s], now,
                                stopped.children, external, spawnOk)
               expected == [started.sm EXCEPT
                              !.RestartCount = sm[s].RestartCount + 1]
           IN /\ sm'[s] = expected
              /\ children' = Reap(started.children,
                                  [sm EXCEPT ![s] = expected])]_vars

\* C14, witness: a Running service was restarted and is Running again, with
\* another child.
C14_RestartedRunning ==
  /\ Len(calls) >= 2
  /\ SubSeq(calls, Len(calls) - 1, Len(calls)) = <<"Start", "Restart">>
  /\ \A s \in Names :
       sm[s].Status = "Running" /\ sm[s].RestartCount = 1 /\ HasLiveChild(s)

\* C15: after a Stop has returned, no child spawned for the service is alive.
C15_StopLeavesNoChild ==
  \A s \in Names : LastCall = "Stop" => LiveChildren(s) = {}

\* C16: when the tick loop calls GetStatus on a Running service whose child
\* has died, or whose port accepts no connection, the snapshot is Failed with
\* LastError set.
C16_DeadChildReportedFailed ==
  [][\A s \in Names :
       (/\ s \in toMonitor /\ s \notin toMonitor'
        /\ sm[s].Status = "Running"
        /\ \/ ~HasLiveChild(s)
           \/ ~CheckPortConnectivity(sm[s].LocalPort, children, external)) =>
         sm'[s].Status = "Failed" /\ sm'[s].LastError # ""]_vars

\* C19: a failed read of the kubectl context is not fatal: the Manager never
\* gives up starting because of it, and goes on to run its services.
C19_ContextReadFailureNonFatal == mgr # "startFailed"

\* monitorServices has taken every snapshot of this tick and stands before
\* its send on the status channel, which is open.
AtPublish ==
  loopPc = "monitor" /\ toMonitor = {} /\ ~mgrLock /\ ~panicked /\ ~chanClosed

\* C20: the status channel never holds more than one undelivered snapshot;
\* the send of monitorServices can always be taken, whether or not the
\* observer has drained the channel; and a send that finds the channel full
\* leaves it as it is and lets the tick go on.
C20_PublishNeverBlocks ==
  /\ [](Len(statusChan) <= StatusChanCap)
  /\ [](AtPublish => ENABLED MonitorPublish)
  /\ [][(AtPublish /\ loopPc' # loopPc /\ Len(statusChan) = StatusChanCap) =>
          statusChan' = statusChan /\ loopPc' = "checkctx" /\ ~panicked']_vars

\* C20, witness: the tick went on past its send while the channel still held
\* the snapshot of an earlier tick.
C20_SnapshotDropped ==
  /\ loopPc = "checkctx"
  /\ Len(statusChan) = StatusChanCap
  /\ statusChan[1] < built

\* A global restart that is under way has not called Restart on s yet.
AwaitsGlobalRestart(s) ==
  \E i \in 1..Len(globalRestart) :
    globalRestart[i].pc = "copy" \/ s \in globalRestart[i].left

\* C17: a tick that reads a context different from the remembered one stores
\* it and dispatches a global restart, and under fair scheduling that global
\* restart eventually calls Restart on every service.
C17_ContextChangeRestartsAll ==
  /\ [][Len(globalRestart') > Len(globalRestart) =>
          kubernetesContext # kctx /\ kubernetesContext' = kctx]_vars
  /\ \A s \in Services :
       (s \in Names /\ AwaitsGlobalRestart(s)) ~> ~AwaitsGlobalRestart(s)

\* C18: when the global restart of a single context change completes, the
\* RestartCount of every service is one more than it was when the tick that
\* detected the change began.
C18_GlobalRestartCountsOnce ==
  [][(ctxChanges = 1 /\ Len(globalRestart) = 1 /\ globalRestart' = <<>>) =>
       \A s \in Names :
         sm'[s].RestartCount = globalRestart[1].before[s] + 1]_vars

\* C21: the observer receives the snapshots in the order the tick loop built
\* them, each at most once: every snapshot in the channel was built, and
\* built after the one the observer received last; those in the channel lie
\* in the order they were built; and each receive yields a later snapshot
\* than the one before.
C21_SnapshotsInBuildOrder ==
  /\ [](\A i \in 1..Len(statusChan) :
          /\ lastReceived < statusChan[i] /\ statusChan[i] <= built
          /\ \A j \in 1..Len(statusChan) : i < j => statusChan[i] < statusChan[j])
  /\ [][lastReceived' # lastReceived => lastReceived' > lastReceived]_vars

\* C21, witness: the observer got the first snapshot, the second was dropped,
\* and the third waits in the channel.
C21_ReceivedAfterGap ==
  lastReceived = 1 /\ statusChan = <<3>>

\* C22: when Start has failed for some of the services, Manager.Start has
\* still built every ServiceManager and started the monitoring loop, the
\* services that started are Running, and the program goes on with them: the
\* error that carries the count does not end it.
C22_PartialStartGoesOn ==
  (startErrors >= 1 /\ mgr \notin {"new", "starting"}) =>
    /\ mgr = "running"
    /\ tickerOn
    /\ ~panicked

\* C23: a step that changes the runtime state of one service leaves the
\* runtime state of every other service as it was, and the tick loop keeps
\* running whatever is done to a service: a tick that has entered GetStatus
\* of a service leaves it again.
C23_ServicesIsolated ==
  /\ [][\A s \in Names, t \in Names :
          (s # t /\ sm'[s] # sm[s]) => sm'[t] = sm[t]]_vars
  /\ (rlocked # {}) ~> (rlocked = {})

\* The services the last status map asks a helper for.
Wanted == {n \in Services : svcType[n] = "rpc" /\ gmSnapshot[n] = "Running"}

\* An enabled manager has reconciled, and no dispatched goroutine is left.
Reconciled == gmEnabled /\ gmSnapshot # NoSnapshot /\ gmTasks = <<>>

\* C24: once MonitorServices has run on an enabled manager and the goroutines
\* it dispatched are through, exactly the rpc services that the status map
\* shows Running have a helper entry, and a further MonitorServices with the
\* same status map dispatches nothing.
C24_ReconcileConverges ==
  /\ [](Reconciled => DOMAIN gmServices = Wanted)
  /\ [][(Reconciled /\ reconciles' = reconciles + 1
         /\ gmSnapshot' = gmSnapshot) => gmTasks' = <<>>]_vars

\* A StartService call returned in this step.
StartServiceReturns == gmCall'.seq = gmCall.seq + 1

\* C25: StartService makes a helper entry only when it found the manager
\* enabled, the service of type rpc and its status Running; every other call
\* returns nil and leaves the entries as they are; the entries change through
\* StartService in no other way, and no service of another type ever has an
\* entry.
C25_AdoptsOnlyRunningRpc ==
  /\ [][StartServiceReturns =>
          \/ /\ gmCall'.enabled /\ gmCall'.type = "rpc"
             /\ gmCall'.status = "Running"
          \/ gmCall'.err = "" /\ gmServices' = gmServices]_vars
  /\ [][\A n \in DOMAIN gmServices' \ DOMAIN gmServices :
          /\ StartServiceReturns
          /\ gmCall'.name = n /\ gmCall'.enabled /\ gmCall'.type = "rpc"
          /\ gmCall'.status = "Running" /\ gmCall'.err = ""]_vars
  /\ [](\A n \in DOMAIN gmServices : svcType[n] = "rpc")

\* C25, witness: on an enabled manager that holds the helper of an rpc
\* service, StartService was called for a service of another type that is
\* Running, and returned nil without adopting it.
C25_NonRpcNotAdopted ==
  /\ gmCall.op = "StartService" /\ gmCall.enabled /\ gmCall.type # "rpc"
  /\ gmCall.status = "Running" /\ gmCall.err = ""
  /\ gmCall.name \notin DOMAIN gmServices
  /\ DOMAIN gmServices # {}

\* The helper of n has an entry, and its process has exited.
HelperDead(n) ==
  n \in DOMAIN gmServices /\ ~Alive(helperProcs[gmServices[n].cmd])

\* MonitorServices dispatches a StartService for n in this step.
DispatchesStart(n) ==
  \E i \in Len(gmTasks) + 1..Len(gmTasks') :
    gmTasks'[i].op = "start" /\ gmTasks'[i].name = n

\* C26: the exit of a helper process leaves every ServiceManager as it is,
\* and when the helper of an rpc service has exited while the service stays
\* Running, the next MonitorServices call dispatches a StartService for it.
C26_DeadHelperReplaced ==
  /\ [][helperProcs' # helperProcs => sm' = sm]_vars
  /\ [][(gmEnabled /\ reconciles' = reconciles + 1) =>
          \A n \in Services :
            (/\ svcType[n] = "rpc" /\ HelperDead(n)
             /\ gmSnapshot[n] = "Running" /\ gmSnapshot'[n] = "Running")
            => DispatchesStart(n)]_vars

\* C27: FindAvailablePort(startPort) returns a port that is free when it is
\* probed, not below startPort and not above the highest port, with every
\* port from startPort up to it occupied; and it returns the error exactly
\* when no port from startPort on is free, as for a startPort above the
\* highest port.
C27_LowestFreePort ==
  [][probes' = probes + 1 =>
       /\ found' # 0 =>
            /\ probeFrom' <= found' /\ found' <= MaxPort
            /\ found' \notin external
            /\ \A q \in probeFrom'..found' - 1 : q \in external
       /\ found' = 0 <=> \A q \in probeFrom'..MaxPort : q \in external
       /\ probeFrom' > MaxPort => found' = 0]_vars

\* C27, witness: a search that started at an occupied port has returned a
\* higher one.
C27_SkippedOccupied ==
  /\ probes > 0 /\ found > probeFrom
  /\ \A q \in probeFrom..found - 1 : q \in external

\* The Restart invocations on s that have not returned: those the ticks
\* dispatched, and those of the global restarts.
Outstanding(s) ==
  restartTasks[s]["stop"] + restartTasks[s]["incr"] + restartTasks[s]["start"]
  + Cardinality({i \in 1..Len(globalRestart) :
                   /\ globalRestart[i].pc \in {"stop", "stopwait", "incr", "start"}
                   /\ globalRestart[i].cur = s})

\* C28: the tick loop dispatches a Restart only for a service its snapshot
\* shows Failed and not in cooldown, and no service ever has more than one
\* Restart outstanding, whether dispatched by a tick or by the global
\* restart after a context change.
C28_OneRestartOutstanding ==
  /\ [][\A s \in Names :
          (loopPc = "monitor" /\ restartTasks'[s]["stop"] > restartTasks[s]["stop"])
          => NeedsRestart(sm'[s])]_vars
  /\ [](\A s \in Names : Outstanding(s) <= 1)

\* C29: whatever external command gets stuck, the monitoring goroutine
\* answers every tick of the ticker: a tick that waits in the ticker's
\* channel is followed by a further snapshot.
C29_EveryTickPublishes ==
  \A n \in 0..LongTime : (tickBuffered /\ built = n) ~> (built > n)

\* C30: the runtime state of a ServiceManager changes only in steps that hold
\* its mutex exclusively, so never while a GetStatus holds the read lock:
\* GetStatus only copies the status out.
C30_WritesUnderExclusiveLock ==
  [][\A s \in Names : sm'[s] # sm[s] => s \notin rlocked]_vars

\* C31: when GetStatus probes a service and finds it healthy, the service's
\* failureCount and cooldownUntil are zero afterwards: a service that has
\* recovered starts its next sequence of failures from nothing.
C31_RecoveryResetsStreak ==
  [][\A s \in Names :
       (s \in toMonitor /\ s \notin toMonitor' /\ sm'[s].Status = "Running")
       => sm'[s].failureCount = 0 /\ sm'[s].cooldownUntil = 0]_vars

\* C32: the failure that brings failureCount to n sets no cooldown for n < 3,
\* and for n >= 3 a cooldown of ladder[min(n - 3, 4)] seconds from now, with
\* the ladder 5, 10, 20, 40, 60; so the cooldown is never longer than 60 s.
C32_BackoffLadder ==
  [][\A s \in Names :
       LET n == sm'[s].failureCount
           ladder == <<5, 10, 20, 40, 60>>
           i == IF n - 3 < 4 THEN n - 3 ELSE 4
       IN n = sm[s].failureCount + 1 =>
            IF n < 3 THEN sm'[s].cooldownUntil = sm[s].cooldownUntil
            ELSE /\ sm'[s].cooldownUntil = now + ladder[i + 1]
                 /\ sm'[s].cooldownUntil - now <= 60]_vars

\* C32, witness: a failure beyond the end of the ladder has set the cooldown
\* of the last step.
C32_LadderClamped ==
  \E s \in Names : sm[s].failureCount >= 9 /\ sm[s].cooldownUntil = now + 60

\* Start ran on s in this step and was not refused by the cooldown: it
\* spawned a child, or counted the failure to spawn one.
StartAttempts(s) ==
  Spawns(s) \/ sm'[s].failureCount = sm[s].failureCount + 1

\* C33: every Start that the cooldown does not refuse probes the configured
\* port again: the port it records is free at that moment, it is the
\* configured port when that is free and otherwise the lowest free port
\* above it; a Start that spawned leaves the service Running with an empty
\* LastError, whatever the port, and a Running service never has a LastError.
C33_StartReprobesPort ==
  /\ [][\A s \in Names :
          LET p == sm'[s].LocalPort
              busy == Listening(children, external)
          IN /\ StartAttempts(s) =>
                  /\ p \in Ports \ busy
                  /\ config[s] \notin busy => p = config[s]
                  /\ config[s] \in busy =>
                       p > config[s] /\ \A q \in config[s] + 1..p - 1 : q \in busy
             /\ Spawns(s) =>
                  sm'[s].Status = "Running" /\ sm'[s].LastError = ""]_vars
  /\ [](\A s \in Names : sm[s].Status = "Running" => sm[s].LastError = "")

\* C33, witness: a restarted service is Running on a port above the
\* configured one, without a LastError.
C33_RestartedOnHigherPort ==
  \E s \in Names :
    /\ sm[s].Status = "Running" /\ sm[s].RestartCount > 0
    /\ sm[s].LocalPort > config[s] /\ sm[s].LastError = ""

\* A goroutine's Start runs on s in this step: that of Manager.Start, of a
\* Restart the ticks dispatched, or of a Restart of the global restart.
StartRuns(s) ==
  \/ s \in toStart /\ s \notin toStart'
  \/ restartTasks'[s]["start"] < restartTasks[s]["start"]
  \/ \E i \in 1..Len(globalRestart) :
       /\ globalRestart[i].pc = "start" /\ globalRestart[i].cur = s
       /\ (Len(globalRestart') < Len(globalRestart) \/ globalRestart'[i] # globalRestart[i])

\* Neither the configured port of s nor any port above it is free.
NoFreePortFor(s) ==
  \A q \in config[s]..MaxPort : q \in Listening(children, external)

\* Start ran into the port resolution on s and found no port.
StartFindsNoPort(s) ==
  StartRuns(s) /\ ~isInCooldown(sm[s], now) /\ NoFreePortFor(s)

\* No process was spawned in this step.
NothingSpawned ==
  \A i \in 1..Len(children') :
    Alive(children'[i]) => i <= Len(children) /\ Alive(children[i])

\* C34: a Start for which the port resolution finds no free port spawns no
\* child, leaves the service Failed with the resolver's message "no
\* available ports found ..." as LastError, returns the error, and leaves the
\* recorded port, PID, process handle and failure count as they were.
C34_NoFreePortFails ==
  [][\A s \in Names :
       StartFindsNoPort(s) =>
         /\ NothingSpawned
         /\ sm'[s].Status = "Failed" /\ sm'[s].LastError = NoPortsError
         /\ Start(s, sm[s], config[s], now, children, external, TRUE).err # ""
         /\ sm'[s].LocalPort = sm[s].LocalPort /\ sm'[s].PID = sm[s].PID
         /\ sm'[s].cmd = sm[s].cmd
         /\ sm'[s].failureCount = sm[s].failureCount]_vars

\* C34, witness: a service that ran on a port of its own has been restarted
\* into the failure, and still shows that port.
C34_FailedForWantOfPort ==
  \E s \in Names :
    /\ sm[s].Status = "Failed" /\ sm[s].LastError = NoPortsError
    /\ sm[s].RestartCount > 0 /\ sm[s].LocalPort # 0

\* C34 as stated: the LastError of such a Start reads "no free port".
C34_LastErrorNoFreePort ==
  [][\A s \in Names :
       StartFindsNoPort(s) => sm'[s].LastError = "no free port"]_vars

\* The second pass assigns a port to name in this step.
AssignedInSecondPass(name) ==
  /\ resolvePc = "second" /\ name \in pending
  /\ name \notin DOMAIN portAssignments /\ name \in DOMAIN portAssignments'

\* The ports the second pass may give out: not reserved in this call, and
\* reported free by the checker.
Assignable ==
  {p \in Ports : p \notin usedPorts /\ Reports(p, portCache, children, external)}

\* C35: the second pass of ResolvePortConflictsOptimized gives an entry the
\* lowest port at or above its desired port that is neither reserved in this
\* call nor reported taken by the checker; a call that returns a map returns
\* one with a port for every entry and no port twice; and a call fails, with
\* a nil map, exactly when an entry of the second pass finds no such port.
C35_SecondPassLowestUnreserved ==
  /\ [][\A name \in DOMAIN services :
          /\ AssignedInSecondPass(name) =>
               LET p == portAssignments'[name]
               IN /\ p \in Assignable /\ p >= services[name]
                  /\ \A q \in services[name]..p - 1 : q \notin Assignable
          /\ (/\ resolvePc = "second" /\ name \in pending \ pending'
              /\ name \notin DOMAIN portAssignments
              /\ \A q \in services[name]..MaxPort : q \notin Assignable)
             => resolvePc' = "error" /\ portAssignments' = Unassigned]_vars
  /\ [][resolvePc' = "error" /\ resolvePc # "error" =>
          \E name \in pending :
            /\ name \notin DOMAIN portAssignments
            /\ \A q \in services[name]..MaxPort : q \notin Assignable]_vars
  /\ [](resolvePc = "done" =>
          /\ DOMAIN portAssignments = DOMAIN services
          /\ \A n, m \in DOMAIN services :
               n # m => portAssignments[n] # portAssignments[m])
  /\ [](resolvePc = "error" => portAssignments = Unassigned)

\* C35, witness: the call returned a map in which an entry of the second
\* pass got a port above a free port that the first pass had reserved.
C35_SkippedReserved ==
  /\ resolvePc = "done"
  /\ \E n, m \in DOMAIN services :
       /\ n # m /\ services[n] = services[m]
       /\ portAssignments[m] = services[m]
       /\ portAssignments[n] > services[n]
       /\ services[n] \notin external

\* C36: two calls of ResolvePortConflictsOptimized, the first with an empty
\* cache, on the same map and with the same ports taken return the same
\* assignment.
C36_SameAssignmentEveryRun ==
  resolvePc = "done" /\ previous # <<>> =>
    portAssignments = previous[Len(previous)]

\* C37: the helpers of the manager's entries that are alive at the same time
\* have pairwise distinct ports.
C37_HelperPortsDistinct ==
  \A n, m \in DOMAIN gmServices :
    /\ n # m
    /\ Alive(helperProcs[gmServices[n].cmd])
    /\ Alive(helperProcs[gmServices[m].cmd])
    => gmServices[n].grpcuiPort # gmServices[m].grpcuiPort

\* C38: once Manager.Stop has stopped the ticker, the monitoring goroutine
\* begins no further tick body (monitorServices, checkKubernetesContext).
C38_NoTickBodyAfterCancel ==
  [][(mgr \in {"stopping", "stopped"} /\ loopPc = "idle")
       => loopPc' \notin {"monitorLock", "monitor"}]_vars

\* C39: whenever monitorServices performs its send, the status channel is
\* open, and the send does not panic.
C39_NoSendOnClosedChannel ==
  [][(loopPc = "monitor" /\ loopPc' = "checkctx")
       => ~chanClosed /\ panicked' = panicked]_vars

\* C40: under fair scheduling every GetStatus that has taken the read lock
\* of a service returns, and every Stop that waits for the write lock of a
\* service gets it.
C40_StatusAlwaysReturns ==
  \A s \in Services :
    /\ (s \in rlocked) ~> (s \notin rlocked)
    /\ WriterPending(s) ~> ~WriterPending(s)

====
